---- MODULE Spec2Model ----
(***************************************************************************)
(* A model of vtpy's Terminal (src/vtpy/terminal.py): the command encoder  *)
(* with its tracked terminal state, and the response/input demultiplexer   *)
(* that reads an interleaved byte stream from the transport.               *)
(*                                                                         *)
(* A byte is a one-character string, except the escape byte 0x1B, written  *)
(* "ESC".  A bytes value is a sequence of bytes.                           *)
(***************************************************************************)
EXTENDS Integers, Sequences, FiniteSets, TLC

VARIABLES
    self,       \* the Terminal instance's fields, plus `written` (the bytes
                \* interface.write received during the current public call)
                \* and `raised` (the exception the current call ended with)
    wire,       \* bytes that have arrived at the interface and are unread
    cur,        \* bytes of the key or frame being transmitted, yet to arrive
    sent,       \* history: every key or frame handed to the transport so far
    pc,         \* the call in progress and its position (op = "idle": none)
    call,       \* history: the last public call, its arguments and result
    popped      \* history: the non-None values recvInput has returned

vars == <<self, wire, cur, sent, pc, call, popped>>

---------------------------------------------------------------------------
(* Bounds of the model *)

\* Keys and frames the transport delivers in one behaviour.
MaxTokens == 3

\* recvInput's liveness poll becomes due only while pollFailures is below
\* this cap (pollFailures is unbounded in the code).
MaxPollFailures == 5

\* Characters in one enumerated text handed to sendText.
MaxTextLen == 2

---------------------------------------------------------------------------
(* Protocol constants: Terminal's class attributes *)

ESCAPE == "ESC"

G0_UK_CHARSET == <<"(", "A">>
G0_US_CHARSET == <<"(", "B">>
G0_BOX_CHARSET == <<"(", "0">>
G1_UK_CHARSET == <<")", "A">>
G1_US_CHARSET == <<")", "B">>
G1_BOX_CHARSET == <<")", "0">>

REQUEST_STATUS == <<"[", "5", "n">>
STATUS_OKAY == <<"[", "0", "n">>
REQUEST_CURSOR == <<"[", "6", "n">>

MOVE_CURSOR_ORIGIN == <<"[", "H">>
MOVE_CURSOR_UP == <<"M">>
MOVE_CURSOR_DOWN == <<"D">>

CLEAR_TO_ORIGIN == <<"[", "1", "J">>
CLEAR_TO_END_OF_LINE == <<"[", "0", "K">>
CLEAR_SCREEN == <<"[", "2", "J">>
CLEAR_LINE == <<"[", "2", "K">>

SET_132_COLUMNS == <<"[", "?", "3", "h">>
SET_80_COLUMNS == <<"[", "?", "3", "l">>

TURN_ON_REGION == <<"[", "?", "6", "h">>
TURN_OFF_REGION == <<"[", "?", "6", "l">>

TURN_ON_AUTOWRAP == <<"[", "?", "7", "h">>
TURN_OFF_AUTOWRAP == <<"[", "?", "7", "l">>

SET_BOLD == <<"[", "1", "m">>
SET_NORMAL == <<"[", "0", "m">>
SET_UNDERLINE == <<"[", "4", "m">>
SET_REVERSE == <<"[", "7", "m">>

SAVE_CURSOR == <<"7">>
RESTORE_CURSOR == <<"8">>

DOUBLE_HEIGHT_TOP == <<"#", "3">>
DOUBLE_HEIGHT_BOTTOM == <<"#", "4">>
DOUBLE_WIDTH == <<"#", "6">>
NORMAL_SIZE == <<"#", "5">>

UP == <<"[", "A">>
DOWN == <<"[", "B">>
LEFT == <<"[", "D">>
RIGHT == <<"[", "C">>

MAX_FAILURES == 3

\* fetchCursor's attempt budget: range(12).
FETCH_ATTEMPTS == 12

\* The geometry __init__ sets.
ROWS == 24
COLUMNS_80 == 80
COLUMNS_132 == 132

\* self.cursor == (-1, -1): the position is not known.
UNKNOWN == <<-1, -1>>

\* self.lastMode before the first save-cursor: the attribute does not exist
\* (__init__ assigns self.lastModes, another name).  Modelled as the empty
\* tuple; a saved snapshot is a 4-tuple.
NoAttribute == <<>>

---------------------------------------------------------------------------
(* Bytes helpers *)

Digits == <<"0", "1", "2", "3", "4", "5", "6", "7", "8", "9">>

DigitSet == {Digits[i] : i \in 1..10}

\* The value of one decimal digit byte.
DigitValue(d) == (CHOOSE i \in 1..10 : Digits[i] = d) - 1

RECURSIVE Decimal(_)
\* str(n).encode("ascii") of an integer n >= 0, as the f-string formats it.
Decimal(n) ==
    IF n < 10 THEN <<Digits[n + 1]>>
    ELSE Decimal(n \div 10) \o <<Digits[(n % 10) + 1]>>

RECURSIVE ParseInt(_)
\* int(b) of a non-empty run of decimal digit bytes.
ParseInt(b) ==
    IF Len(b) = 1 THEN DigitValue(b[1])
    ELSE 10 * ParseInt(SubSeq(b, 1, Len(b) - 1)) + DigitValue(b[Len(b)])

\* b[n:] of Python, 0-based n.
From(b, n) == SubSeq(b, n + 1, Len(b))

\* The 1-based index of the first x in b, or 0.
IndexOf(b, x) ==
    IF \E i \in 1..Len(b) : b[i] = x
    THEN CHOOSE i \in 1..Len(b) : b[i] = x /\ \A j \in 1..(i - 1) : b[j] # x
    ELSE 0

---------------------------------------------------------------------------
(* Terminal.__init__ *)

\* The fields after construction: __init__'s assignments followed by reset().
InitSelf ==
    [ leftover |-> <<>>,
      pending |-> <<>>,
      responses |-> <<>>,
      reversed |-> FALSE,
      bolded |-> FALSE,
      underlined |-> FALSE,
      autowrap |-> FALSE,
      boxMode |-> FALSE,
      pollDue |-> FALSE,        \* time.time() - self.lastPolled > CHECK_INTERVAL
      pollFailures |-> 0,
      lastModes |-> <<FALSE, FALSE, FALSE, FALSE>>,
      lastMode |-> NoAttribute,
      columns |-> COLUMNS_80,
      rows |-> ROWS,
      cursor |-> UNKNOWN,
      written |-> <<>>,
      raised |-> "none" ]

\* interface.write(data)
write(s, data) == [s EXCEPT !.written = @ \o data]

\* A public call starts with nothing written and nothing raised.
Enter(s) == [s EXCEPT !.written = <<>>, !.raised = "none"]

---------------------------------------------------------------------------
(* Terminal.sendCommand *)

\* The commands of `elif cmd in {...}`: reset = False, nothing else.
NoResetCommands ==
    { G0_UK_CHARSET, G0_US_CHARSET, G0_BOX_CHARSET,
      G1_UK_CHARSET, G1_US_CHARSET, G1_BOX_CHARSET,
      TURN_ON_REGION, TURN_OFF_REGION,
      DOUBLE_HEIGHT_TOP, DOUBLE_HEIGHT_BOTTOM, DOUBLE_WIDTH, NORMAL_SIZE,
      REQUEST_STATUS, REQUEST_CURSOR }

\* The if/elif chain of sendCommand: the fields after it and whether the
\* cursor is lost (`reset`).  Restore-cursor reads self.lastMode, which
\* does not exist until a save-cursor has assigned it: AttributeError.
TrackCommand(s, cmd) ==
    CASE cmd = SET_NORMAL ->
            [s |-> [s EXCEPT !.reversed = FALSE, !.bolded = FALSE,
                             !.underlined = FALSE],
             reset |-> FALSE]
      [] cmd = SET_REVERSE ->
            [s |-> [s EXCEPT !.reversed = TRUE], reset |-> FALSE]
      [] cmd = SET_BOLD ->
            [s |-> [s EXCEPT !.bolded = TRUE], reset |-> FALSE]
      [] cmd = SET_UNDERLINE ->
            [s |-> [s EXCEPT !.underlined = TRUE], reset |-> FALSE]
      [] cmd = SET_132_COLUMNS ->
            [s |-> [s EXCEPT !.columns = COLUMNS_132], reset |-> TRUE]
      [] cmd = SET_80_COLUMNS ->
            [s |-> [s EXCEPT !.columns = COLUMNS_80], reset |-> TRUE]
      [] cmd = TURN_OFF_AUTOWRAP ->
            [s |-> [s EXCEPT !.autowrap = FALSE], reset |-> FALSE]
      [] cmd = TURN_ON_AUTOWRAP ->
            [s |-> [s EXCEPT !.autowrap = TRUE], reset |-> FALSE]
      [] cmd \in NoResetCommands ->
            [s |-> s, reset |-> FALSE]
      [] cmd = SAVE_CURSOR ->
            [s |-> [s EXCEPT !.lastMode =
                        <<s.bolded, s.underlined, s.reversed, s.boxMode>>],
             reset |-> FALSE]
      [] cmd = RESTORE_CURSOR ->
            IF s.lastMode = NoAttribute
            THEN [s |-> [s EXCEPT !.raised = "AttributeError"], reset |-> TRUE]
            ELSE [s |-> [s EXCEPT !.bolded = s.lastMode[1],
                                  !.underlined = s.lastMode[2],
                                  !.reversed = s.lastMode[3],
                                  !.boxMode = s.lastMode[4]],
                  reset |-> TRUE]
      [] OTHER ->
            [s |-> s, reset |-> TRUE]

\* sendCommand(cmd): write ESC, track the command, invalidate the cursor
\* when `reset`, write cmd.  An exception in the chain leaves the rest undone.
sendCommand(s, cmd) ==
    LET t == TrackCommand(write(s, <<ESCAPE>>), cmd)
    IN  IF t.s.raised # "none" THEN t.s
        ELSE write(IF t.reset THEN [t.s EXCEPT !.cursor = UNKNOWN] ELSE t.s, cmd)

---------------------------------------------------------------------------
(* Terminal.moveCursor *)

\* MoveCommand with the two fields in the wrong order.
MoveCommandSwapped(row, col) ==
    <<"[">> \o Decimal(col) \o <<";">> \o Decimal(row) \o <<"H">>

\* f"[{row};{col}H".encode("ascii")
MoveCommand(row, col) == <<"[">> \o Decimal(row) \o <<";">> \o Decimal(col) \o <<"H">>

\* MoveInRange with the column checked against the widest geometry instead
\* of the current one.
MoveInRangeWidest(s, row, col) ==
    /\ ~(row < 1 \/ row > s.rows)
    /\ ~(col < 1 \/ col > COLUMNS_132)

\* The two early returns of moveCursor, negated.
MoveInRange(s, row, col) ==
    /\ ~(row < 1 \/ row > s.rows)
    /\ ~(col < 1 \/ col > s.columns)

moveCursor(s, row, col) ==
    IF ~MoveInRange(s, row, col) THEN s
    ELSE [sendCommand(s, MoveCommand(row, col)) EXCEPT !.cursor = <<row, col>>]

---------------------------------------------------------------------------
(* Terminal.setAutoWrap, clearAutoWrap *)

\* setAutoWrap without the comparison with the tracked flag.
setAutoWrapAlways(s, value) ==
    IF value THEN sendCommand(s, TURN_ON_AUTOWRAP)
    ELSE sendCommand(s, TURN_OFF_AUTOWRAP)

setAutoWrap(s, value) ==
    IF (~s.autowrap) /\ value THEN sendCommand(s, TURN_ON_AUTOWRAP)
    ELSE IF s.autowrap /\ (~value) THEN sendCommand(s, TURN_OFF_AUTOWRAP)
    ELSE s

clearAutoWrap(s) == setAutoWrap(s, FALSE)

---------------------------------------------------------------------------
(* Terminal.setScrollRegion, clearScrollRegion *)

\* f"[{top};{bottom}r".encode("ascii")
RegionCommand(top, bottom) ==
    <<"[">> \o Decimal(top) \o <<";">> \o Decimal(bottom) \o <<"r">>

setScrollRegion(s, top, bottom) ==
    sendCommand(sendCommand(s, RegionCommand(top, bottom)), TURN_ON_REGION)

clearScrollRegion(s) == sendCommand(s, TURN_OFF_REGION)

---------------------------------------------------------------------------
(* Terminal.sendText *)

\* A character of a str is its code point; a text is a sequence of them.
\* The byte a code point below 128 encodes to, by value: data.encode("ascii").
\* Bytes without a printable form carry their ASCII names; 0x60 is "GRAVE".
AsciiTable ==
    << "NUL", "SOH", "STX", "ETX", "EOT", "ENQ", "ACK", "BEL",
       "BS", "TAB", "LF", "VT", "FF", "CR", "SO", "SI",
       "DLE", "DC1", "DC2", "DC3", "DC4", "NAK", "SYN", "ETB",
       "CAN", "EM", "SUB", "ESC", "FS", "GS", "RS", "US",
       " ", "!", "\"", "#", "$", "%", "&", "'",
       "(", ")", "*", "+", ",", "-", ".", "/",
       "0", "1", "2", "3", "4", "5", "6", "7",
       "8", "9", ":", ";", "<", "=", ">", "?",
       "@", "A", "B", "C", "D", "E", "F", "G",
       "H", "I", "J", "K", "L", "M", "N", "O",
       "P", "Q", "R", "S", "T", "U", "V", "W",
       "X", "Y", "Z", "[", "\\", "]", "^", "_",
       "GRAVE", "a", "b", "c", "d", "e", "f", "g",
       "h", "i", "j", "k", "l", "m", "n", "o",
       "p", "q", "r", "s", "t", "u", "v", "w",
       "x", "y", "z", "{", "|", "}", "~", "DEL" >>

\* data.encode("ascii") raises UnicodeEncodeError from code point 128 on.
IsAscii(data) == data < 128

AsciiByte(data) == AsciiTable[data + 1]

\* alt with the shift byte sent for every character.
altAlwaysShifts(inAlt, char) == [inAlt |-> TRUE, bytes |-> <<"SO">> \o char]

\* alt(char): the byte 0x0E first when the default slot is selected.
alt(inAlt, char) ==
    [inAlt |-> TRUE, bytes |-> (IF ~inAlt THEN <<"SO">> ELSE <<>>) \o char]

\* norm without the shift byte.
normNeverShifts(inAlt, char) == [inAlt |-> FALSE, bytes |-> char]

\* norm(char): the byte 0x0F first when the alternate slot is selected.
norm(inAlt, char) ==
    [inAlt |-> FALSE, bytes |-> (IF inAlt THEN <<"SI">> ELSE <<>>) \o char]

\* (self.ESCAPE + cmd) if flag else b""
EscapeIf(flag, cmd) == IF flag THEN <<ESCAPE>> \o cmd ELSE <<>>

\* Lines 360-383 and 384-407: the light and medium shades, drawn un-bolded.
Shade(s, inAlt, glyph) ==
    IF ~s.bolded
    THEN alt(inAlt, <<glyph>>)
    ELSE alt(inAlt, <<ESCAPE>> \o SET_NORMAL
                    \o EscapeIf(s.reversed, SET_REVERSE)
                    \o EscapeIf(s.underlined, SET_UNDERLINE)
                    \o <<glyph>> \o <<ESCAPE>> \o SET_BOLD)

\* Lines 408-431: the dark shade, drawn bolded.
DarkShade(s, inAlt) ==
    IF s.bolded
    THEN alt(inAlt, <<"a">>)
    ELSE alt(inAlt, <<ESCAPE>> \o SET_BOLD \o <<"a">> \o <<ESCAPE>> \o SET_NORMAL
                    \o EscapeIf(s.reversed, SET_REVERSE)
                    \o EscapeIf(s.underlined, SET_UNDERLINE))

\* SolidBlock without bold set again after the attributes were cleared.
SolidBlockLosesBold(s, inAlt) ==
    norm(inAlt, <<ESCAPE>> \o (IF s.reversed THEN SET_NORMAL ELSE SET_REVERSE)
                \o <<" ">>
                \o <<ESCAPE>> \o (IF s.reversed THEN SET_REVERSE ELSE SET_NORMAL)
                \o EscapeIf(s.underlined, SET_UNDERLINE))

\* Lines 432-445: the solid block, a space in the opposite of the current
\* reverse setting.
SolidBlock(s, inAlt) ==
    norm(inAlt, <<ESCAPE>> \o (IF s.reversed THEN SET_NORMAL ELSE SET_REVERSE)
                \o <<" ">>
                \o <<ESCAPE>> \o (IF s.reversed THEN SET_REVERSE ELSE SET_NORMAL)
                \o EscapeIf(s.bolded, SET_BOLD)
                \o EscapeIf(s.underlined, SET_UNDERLINE))

\* Lines 293-491: the bytes of one character and the slot selected after it.
Glyph(s, inAlt, data) ==
    CASE IsAscii(data) -> norm(inAlt, <<AsciiByte(data)>>)
      [] data = 9472 -> alt(inAlt, <<"q">>)
      [] data = 9474 -> alt(inAlt, <<"x">>)
      [] data = 9484 -> alt(inAlt, <<"l">>)
      [] data = 9488 -> alt(inAlt, <<"k">>)
      [] data = 9492 -> alt(inAlt, <<"m">>)
      [] data = 9496 -> alt(inAlt, <<"j">>)
      [] data = 9532 -> alt(inAlt, <<"n">>)
      [] data = 9500 -> alt(inAlt, <<"t">>)
      [] data = 9508 -> alt(inAlt, <<"u">>)
      [] data = 9524 -> alt(inAlt, <<"v">>)
      [] data = 9516 -> alt(inAlt, <<"w">>)
      [] data \in {192, 193, 194, 195, 196, 197} -> norm(inAlt, <<"A">>)
      [] data = 199 -> norm(inAlt, <<"C">>)
      [] data \in {200, 201, 202, 203} -> norm(inAlt, <<"E">>)
      [] data \in {204, 205, 206, 207} -> norm(inAlt, <<"I">>)
      [] data = 208 -> norm(inAlt, <<"D">>)
      [] data = 209 -> norm(inAlt, <<"N">>)
      [] data \in {210, 211, 212, 213, 214} -> norm(inAlt, <<"O">>)
      [] data \in {217, 218, 219, 220} -> norm(inAlt, <<"U">>)
      [] data = 221 -> norm(inAlt, <<"Y">>)
      [] data \in {224, 225, 226, 227, 228, 229} -> norm(inAlt, <<"a">>)
      [] data = 231 -> norm(inAlt, <<"c">>)
      [] data \in {232, 233, 234, 235} -> norm(inAlt, <<"e">>)
      [] data \in {236, 237, 238, 239} -> norm(inAlt, <<"i">>)
      [] data = 240 -> norm(inAlt, <<"o">>)
      [] data = 241 -> norm(inAlt, <<"n">>)
      [] data \in {242, 243, 244, 245, 246} -> norm(inAlt, <<"o">>)
      [] data \in {249, 250, 251, 252} -> norm(inAlt, <<"u">>)
      [] data \in {253, 255} -> norm(inAlt, <<"y">>)
      [] data = 9617 -> Shade(s, inAlt, "n")
      [] data = 9618 -> Shade(s, inAlt, "a")
      [] data = 9619 -> DarkShade(s, inAlt)
      [] data = 9608 -> SolidBlock(s, inAlt)
      [] data = 176 -> alt(inAlt, <<"f">>)
      [] data = 177 -> alt(inAlt, <<"g">>)
      [] data = 8804 -> alt(inAlt, <<"y">>)
      [] data = 8805 -> alt(inAlt, <<"z">>)
      [] data = 960 -> alt(inAlt, <<"{">>)
      [] data = 8800 -> alt(inAlt, <<"|">>)
      [] data = 163 -> alt(inAlt, <<"}">>)
      [] data \in {183, 8226} -> alt(inAlt, <<"~">>)
      [] data \in {8216, 8217, 8218, 8219, 8242, 8245} -> norm(inAlt, <<"'">>)
      [] data \in {8220, 8221, 8222, 8223, 8243, 8246} -> norm(inAlt, <<"\"">>)
      [] data \in {8270, 8277} -> norm(inAlt, <<"*">>)
      [] data = 8271 -> norm(inAlt, <<";">>)
      [] data = 8274 -> norm(inAlt, <<"%">>)
      [] data = 8275 -> norm(inAlt, <<"~">>)
      [] OTHER -> alt(inAlt, <<"GRAVE">>)

\* Lines 282-287: the column after an ordinary character went past the
\* last one.
PastLastColumn(s, pos) ==
    IF s.autowrap THEN <<pos[1] + 1, 1>> ELSE <<pos[1], s.columns>>

\* Advance with the column moved by the number of bytes written for the
\* character.
AdvanceByBytes(s, pos, data) ==
    IF data \in {13, 10} THEN <<pos[1] + 1, 1>>
    ELSE IF data < 32 THEN UNKNOWN
    ELSE IF pos[2] + Len(Glyph(s, FALSE, data).bytes) > s.columns
    THEN PastLastColumn(s, pos)
    ELSE <<pos[1], pos[2] + Len(Glyph(s, FALSE, data).bytes)>>

\* Lines 271-287: where one character leaves the predicted cursor.
Advance(s, pos, data) ==
    IF data \in {13, 10} THEN <<pos[1] + 1, 1>>
    ELSE IF data < 32 THEN UNKNOWN
    ELSE IF data = 9 THEN UNKNOWN
    ELSE IF pos[2] + 1 > s.columns THEN PastLastColumn(s, pos)
    ELSE <<pos[1], pos[2] + 1>>

\* Predict without the test of the row against self.rows.
PredictPastBottom(s, pos, data) ==
    IF pos[1] # -1 /\ pos[2] # -1 THEN Advance(s, pos, data) ELSE pos

\* Predict without the test that (row, col) is known.
PredictFromUnknown(s, pos, data) ==
    LET next == Advance(s, pos, data)
    IN  IF next[1] > s.rows THEN UNKNOWN ELSE next

\* Lines 269-291: the prediction step of fb, skipped when (row, col) is
\* not known and invalidated when the row leaves the screen.
Predict(s, pos, data) ==
    IF pos[1] # -1 /\ pos[2] # -1
    THEN LET next == Advance(s, pos, data)
         IN  IF next[1] > s.rows THEN UNKNOWN ELSE next
    ELSE pos

RECURSIVE Encode(_, _, _)
\* b"".join(fb(s) for s in text) from encoder state e = [pos, inAlt, out].
Encode(s, e, text) ==
    IF text = <<>> THEN e
    ELSE LET g == Glyph(s, e.inAlt, Head(text))
         IN  Encode(s,
                    [pos |-> Predict(s, e.pos, Head(text)),
                     inAlt |-> g.inAlt,
                     out |-> e.out \o g.bytes],
                    Tail(text))

\* sendText(text)
sendText(s, text) ==
    LET e == Encode(s, [pos |-> s.cursor, inAlt |-> s.boxMode, out |-> <<>>], text)
    IN  [write(s, e.out) EXCEPT
            !.boxMode = e.inAlt,
            !.cursor = IF e.pos[1] = -1 \/ e.pos[2] = -1 THEN UNKNOWN ELSE e.pos]


---------------------------------------------------------------------------
(* Call frames *)

\* Wait budgets, in hundredths of a second.  0 stands for None.
NO_TIMEOUT == 0
INPUT_TIMEOUT == 1
FETCH_TIMEOUT == 25
OK_TIMEOUT == 100

\* No call in progress.  `wait` relates the clock to the two starting times
\* of a _recvResponse call: "first" in its first _recvResponseImpl, whose
\* `start` is the call's own; "again" once `start` was taken anew after an
\* arrow key; "spent" when the budget counted from the first start has run
\* out while the one counted from the new `start` has not; "overrun" when
\* a read has then returned nothing and the loop went on.
Idle ==
    [ op |-> "idle", phase |-> "", timeout |-> NO_TIMEOUT, accum |-> <<>>,
      gotResponse |-> FALSE, oldInputLen |-> 0, attempt |-> 0,
      wait |-> "first" ]

\* The position of a public call `op` that has not read anything yet.
Frame(op, phase) == [Idle EXCEPT !.op = op, !.phase = phase]

\* The outcome of running the engine up to its next transport read, or to
\* the end of the public call (pc.op = "idle"), with the call's return value
\* (<<>> for None or no value, <<v>> or a pair otherwise).
Finish(s, ret) == [s |-> s, pc |-> Idle, ret |-> ret]

Raise(s, exc) == Finish([s EXCEPT !.raised = exc], <<>>)

\* _recvResponse's loop body up to the first read of _recvResponseImpl:
\* oldInputLen = len(self.pending); gotResponse = False; accum = b"".
Block(s, p, timeout) ==
    [ s |-> s,
      pc |-> [p EXCEPT !.timeout = timeout, !.accum = <<>>,
                       !.gotResponse = FALSE, !.oldInputLen = Len(s.pending)],
      ret |-> <<>> ]

---------------------------------------------------------------------------
(* Terminal._recvResponseImpl: the branch taken when a read returns nothing *)

\* The bytes that continue a frame; any other byte ends it.
ContinuationBytes == DigitSet \cup {";", "?", "["}

\* The number of leading bytes of accum that are not ESC (lines 561-563).
PlainPrefix(accum) ==
    IF \E i \in 1..Len(accum) : accum[i] = ESCAPE
    THEN IndexOf(accum, ESCAPE) - 1
    ELSE Len(accum)

\* The 1-based offset of the first byte of body outside the continuation
\* set, or 0 when every byte continues the frame (lines 569-585).
FrameEnd(body) ==
    IF \E i \in 1..Len(body) : body[i] \notin ContinuationBytes
    THEN CHOOSE i \in 1..Len(body) :
            /\ body[i] \notin ContinuationBytes
            /\ \A j \in 1..(i - 1) : body[j] \in ContinuationBytes
    ELSE 0

\* FlushPlain taking the plain bytes from the end of the run backwards.
FlushPlainReversed(pending, accum) ==
    pending \o [i \in 1..PlainPrefix(accum) |->
                    <<accum[PlainPrefix(accum) + 1 - i]>>]

\* self.pending after the plain bytes before the first ESC were appended,
\* one token per byte.
FlushPlain(pending, accum) ==
    pending \o [i \in 1..PlainPrefix(accum) |-> <<accum[i]>>]

\* closeRead dropping a frame that has no final byte yet instead of putting
\* it back into self.leftover.
closeReadForgetsPrefix(s, accum, timeout, elapsed, gotResponse) ==
    IF gotResponse \/ (timeout # NO_TIMEOUT /\ elapsed)
    THEN LET s1 == [s EXCEPT !.pending = FlushPlain(@, accum)]
             rest == From(accum, PlainPrefix(accum))
         IN  IF rest # <<>>
             THEN LET body == Tail(rest)
                      k == FrameEnd(body)
                  IN  IF k > 0
                      THEN [ s |-> [s1 EXCEPT !.leftover = @ \o From(body, k)],
                             done |-> TRUE, resp |-> SubSeq(body, 1, k),
                             gotResponse |-> gotResponse ]
                      ELSE [ s |-> s1,
                             done |-> FALSE, resp |-> <<>>,
                             gotResponse |-> gotResponse ]
             ELSE IF timeout # NO_TIMEOUT
                  THEN [ s |-> s1, done |-> TRUE, resp |-> <<>>,
                         gotResponse |-> gotResponse ]
                  ELSE [ s |-> s1, done |-> FALSE, resp |-> <<>>,
                         gotResponse |-> FALSE ]
    ELSE [ s |-> s, done |-> FALSE, resp |-> <<>>, gotResponse |-> gotResponse ]

\* Lines 558-606.  `elapsed` is (time.time() - start) > timeout.  The result:
\* the fields, whether the function returns (`done`, with `resp`), and
\* gotResponse; accum is empty whenever the loop continues.
closeRead(s, accum, timeout, elapsed, gotResponse) ==
    IF gotResponse \/ (timeout # NO_TIMEOUT /\ elapsed)
    THEN LET s1 == [s EXCEPT !.pending = FlushPlain(@, accum)]
             rest == From(accum, PlainPrefix(accum))
         IN  IF rest # <<>>
             THEN LET body == Tail(rest)
                      k == FrameEnd(body)
                  IN  IF k > 0
                      THEN [ s |-> [s1 EXCEPT !.leftover = @ \o From(body, k)],
                             done |-> TRUE, resp |-> SubSeq(body, 1, k),
                             gotResponse |-> gotResponse ]
                      ELSE [ s |-> [s1 EXCEPT !.leftover =
                                        @ \o <<ESCAPE>> \o body],
                             done |-> FALSE, resp |-> <<>>,
                             gotResponse |-> gotResponse ]
             ELSE IF timeout # NO_TIMEOUT
                  THEN [ s |-> s1, done |-> TRUE, resp |-> <<>>,
                         gotResponse |-> gotResponse ]
                  ELSE [ s |-> s1, done |-> FALSE, resp |-> <<>>,
                         gotResponse |-> FALSE ]
    ELSE [ s |-> s, done |-> FALSE, resp |-> <<>>, gotResponse |-> gotResponse ]

---------------------------------------------------------------------------
(* fetchCursor's parse of a report *)

\* ReportShaped without the test of the last byte.
ReportShapedLoose(resp) ==
    /\ Len(resp) >= 1
    /\ resp[1] = "["

\* resp[:1] == b"[" and resp[-1:] == b"R"
ReportShaped(resp) ==
    /\ Len(resp) >= 1
    /\ resp[1] = "["
    /\ resp[Len(resp)] = "R"

IsNumber(b) == Len(b) >= 1 /\ \A i \in 1..Len(b) : b[i] \in DigitSet

\* resp[1:-1]
ReportBody(resp) == SubSeq(resp, 2, Len(resp) - 1)

\* respstr.split(";", 1): the parts before and after the first ";".
RowField(body) == SubSeq(body, 1, IndexOf(body, ";") - 1)
ColField(body) == From(body, IndexOf(body, ";"))

\* Lines 236-238 succeed: the split gives two parts and int() takes both.
ReportParses(resp) ==
    LET body == ReportBody(resp)
    IN  /\ IndexOf(body, ";") > 0
        /\ IsNumber(RowField(body))
        /\ IsNumber(ColField(body))

\* (int(row), int(col))
ReportPosition(resp) ==
    <<ParseInt(RowField(ReportBody(resp))), ParseInt(ColField(ReportBody(resp)))>>

---------------------------------------------------------------------------
(* The callers of _recvResponse, run up to their next transport read *)

RECURSIVE recvResponse(_, _, _), Resume(_, _, _)

\* isArrow with the vertical arrows left out of the set.
isArrowHorizontal(resp) == resp \in {LEFT, RIGHT}

\* resp in {self.UP, self.DOWN, self.LEFT, self.RIGHT}
isArrow(resp) == resp \in {UP, DOWN, LEFT, RIGHT}

\* recvInput, lines 638-643.
popInput(s) ==
    IF s.pending # <<>>
    THEN Finish([s EXCEPT !.pending = Tail(@)], <<Head(s.pending)>>)
    ELSE Finish(s, <<>>)

\* recvInput, lines 626-630: the periodic check, up to isOk's recvResponse.
pollCheck(s) ==
    IF s.pollDue
    THEN recvResponse(sendCommand([s EXCEPT !.pollDue = FALSE], REQUEST_STATUS),
                      Frame("recvInput", "soft"), OK_TIMEOUT)
    ELSE popInput(s)

\* recvInput, lines 622-624, after _recvResponse(timeout=0.01) returned.
afterPump(s, response) ==
    pollCheck(IF response # <<>>
              THEN [s EXCEPT !.responses = Append(@, response)]
              ELSE s)

\* afterSoft escalating as soon as the counter reaches MAX_FAILURES.
afterSoftAtThreshold(s, resp) ==
    IF resp = STATUS_OKAY
    THEN popInput([s EXCEPT !.pollFailures = 0])
    ELSE LET s1 == [s EXCEPT !.pollFailures = @ + 1]
         IN  IF s1.pollFailures >= MAX_FAILURES
             THEN recvResponse(sendCommand(s1, REQUEST_STATUS),
                               Frame("recvInput", "hard"), OK_TIMEOUT)
             ELSE popInput(s1)

\* recvInput, lines 630-636, after the soft isOk's recvResponse returned.
afterSoft(s, resp) ==
    IF resp = STATUS_OKAY
    THEN popInput([s EXCEPT !.pollFailures = 0])
    ELSE LET s1 == [s EXCEPT !.pollFailures = @ + 1]
         IN  IF s1.pollFailures > MAX_FAILURES
             THEN recvResponse(sendCommand(s1, REQUEST_STATUS),
                               Frame("recvInput", "hard"), OK_TIMEOUT)
             ELSE popInput(s1)

\* checkOk, after isOk's recvResponse returned; `next` is what follows.
afterCheck(s, resp, next) ==
    IF resp = STATUS_OKAY THEN next ELSE Raise(s, "TerminalException")

\* fetchCursor, lines 236-239.
parseReport(s, resp) ==
    IF ReportParses(resp)
    THEN Finish([s EXCEPT !.cursor = ReportPosition(resp)], ReportPosition(resp))
    ELSE Raise(s, "ValueError")

\* fetchCursor's for loop from the top of iteration `attempt` (0-based).
fetchLoop(s, attempt) ==
    IF attempt >= FETCH_ATTEMPTS
    THEN Raise(s, "TerminalException")
    ELSE recvResponse(s, [Frame("fetchCursor", "") EXCEPT !.attempt = attempt],
                      FETCH_TIMEOUT)

\* afterFetch without the request sent again after an empty attempt.
afterFetchNoResend(s, attempt, resp) ==
    IF resp = <<>> \/ ~ReportShaped(resp)
    THEN fetchLoop(s, attempt + 1)
    ELSE parseReport(s, resp)

\* fetchCursor's loop body after recvResponse(0.25) returned resp.
afterFetch(s, attempt, resp) ==
    IF resp = <<>>
    THEN fetchLoop(sendCommand(s, REQUEST_CURSOR), attempt + 1)
    ELSE IF ~ReportShaped(resp)
    THEN fetchLoop(s, attempt + 1)
    ELSE parseReport(s, resp)

\* The code that follows a return of recvResponse, by caller.
Resume(s, p, resp) ==
    CASE p.op = "recvResponse" -> Finish(s, <<resp>>)
      [] p.op = "isOk" -> Finish(s, <<resp = STATUS_OKAY>>)
      [] p.op \in {"checkOk", "set80Columns", "set132Columns"} ->
            afterCheck(s, resp, Finish(s, <<>>))
      [] p.op = "fetchCursor" -> afterFetch(s, p.attempt, resp)
      [] p.op = "recvInput" /\ p.phase = "soft" -> afterSoft(s, resp)
      [] p.op = "recvInput" /\ p.phase = "hard" ->
            afterCheck(s, resp, popInput(s))

\* recvResponse taking the newest buffered frame instead of the oldest.
recvResponseNewestFirst(s, p, timeout) ==
    IF s.responses # <<>>
    THEN Resume([s EXCEPT !.responses = SubSeq(@, 1, Len(@) - 1)], p,
                s.responses[Len(s.responses)])
    ELSE Block(s, p, timeout)

\* recvResponse(timeout) called at position p: the head of self.responses,
\* or else _recvResponse(timeout), which reads the transport.
recvResponse(s, p, timeout) ==
    IF s.responses # <<>>
    THEN Resume([s EXCEPT !.responses = Tail(@)], p, Head(s.responses))
    ELSE Block(s, p, timeout)

\* afterImpl without the assignment of self.lastPolled.
afterImplKeepsTimer(s, p, resp) ==
    IF isArrow(resp)
    THEN Block([s EXCEPT !.pending = Append(@, resp)],
               [p EXCEPT !.wait = IF @ = "first" THEN "again" ELSE @],
               p.timeout)
    ELSE IF p.op = "recvInput" /\ p.phase = "pump"
    THEN afterPump(s, resp)
    ELSE Resume(s, p, resp)

\* _recvResponse, lines 534-540, after _recvResponseImpl returned resp.
afterImpl(s, p, resp) ==
    LET s1 == IF resp # <<>> \/ Len(s.pending) > p.oldInputLen
              THEN [s EXCEPT !.pollDue = FALSE]
              ELSE s
    IN  IF isArrow(resp)
        THEN Block([s1 EXCEPT !.pending = Append(@, resp)],
                   [p EXCEPT !.wait = IF @ = "first" THEN "again" ELSE @],
                   p.timeout)
        ELSE IF p.op = "recvInput" /\ p.phase = "pump"
        THEN afterPump(s1, resp)
        ELSE Resume(s1, p, resp)

---------------------------------------------------------------------------
(* The public operations, each run up to its first transport read *)

isOk(s) == recvResponse(sendCommand(s, REQUEST_STATUS), Frame("isOk", ""), OK_TIMEOUT)

checkOk(s, op) ==
    recvResponse(sendCommand(s, REQUEST_STATUS), Frame(op, ""), OK_TIMEOUT)

set132Columns(s) == checkOk(sendCommand(s, SET_132_COLUMNS), "set132Columns")

set80Columns(s) == checkOk(sendCommand(s, SET_80_COLUMNS), "set80Columns")

CursorKnown(s) == s.cursor[1] # -1 /\ s.cursor[2] # -1

\* fetchCursor without the test of the cache.
fetchCursorAlwaysAsks(s) == fetchLoop(sendCommand(s, REQUEST_CURSOR), 0)

fetchCursor(s) ==
    IF CursorKnown(s) THEN Finish(s, s.cursor)
    ELSE fetchLoop(sendCommand(s, REQUEST_CURSOR), 0)

recvInput(s) ==
    IF s.pending = <<>>
    THEN Block(s, Frame("recvInput", "pump"), INPUT_TIMEOUT)
    ELSE pollCheck(s)

\* peekInput looking at the newest token of the queue.
peekInputNewest(s) ==
    IF s.pending # <<>> THEN <<s.pending[Len(s.pending)]>> ELSE <<>>

peekInput(s) == IF s.pending # <<>> THEN <<Head(s.pending)>> ELSE <<>>

\* reset without the command that turns autowrap off.
resetKeepsAutowrap(s) ==
    LET s1 == sendCommand(s, SET_80_COLUMNS)
        s2 == sendCommand(s1, RegionCommand(1, 24))
        s3 == sendCommand(s2, TURN_OFF_REGION)
        s4 == sendCommand(s3, CLEAR_SCREEN)
        s5 == sendCommand(s4, MOVE_CURSOR_ORIGIN)
        s6 == sendCommand(s5, SET_NORMAL)
        s7 == sendCommand(s6, G0_US_CHARSET)
        s8 == sendCommand(s7, G1_BOX_CHARSET)
    IN  [write(s8, <<"SI">>) EXCEPT !.boxMode = FALSE]

\* reset with the clear-screen and home-cursor commands exchanged.
resetHomeBeforeClear(s) ==
    LET s1 == sendCommand(s, SET_80_COLUMNS)
        s2 == sendCommand(s1, RegionCommand(1, 24))
        s3 == sendCommand(s2, TURN_OFF_REGION)
        s4 == sendCommand(s3, MOVE_CURSOR_ORIGIN)
        s5 == sendCommand(s4, CLEAR_SCREEN)
        s6 == sendCommand(s5, SET_NORMAL)
        s7 == sendCommand(s6, G0_US_CHARSET)
        s8 == sendCommand(s7, G1_BOX_CHARSET)
        s9 == sendCommand(s8, TURN_OFF_AUTOWRAP)
    IN  [write(s9, <<"SI">>) EXCEPT !.boxMode = FALSE]

reset(s) ==
    LET s1 == sendCommand(s, SET_80_COLUMNS)
        s2 == sendCommand(s1, RegionCommand(1, 24))
        s3 == sendCommand(s2, TURN_OFF_REGION)
        s4 == sendCommand(s3, CLEAR_SCREEN)
        s5 == sendCommand(s4, MOVE_CURSOR_ORIGIN)
        s6 == sendCommand(s5, SET_NORMAL)
        s7 == sendCommand(s6, G0_US_CHARSET)
        s8 == sendCommand(s7, G1_BOX_CHARSET)
        s9 == sendCommand(s8, TURN_OFF_AUTOWRAP)
    IN  [write(s9, <<"SI">>) EXCEPT !.boxMode = FALSE]

---------------------------------------------------------------------------
(* The state machine *)

Init ==
    /\ self = InitSelf
    /\ wire = <<>>
    /\ cur = <<>>
    /\ sent = <<>>
    /\ pc = Idle
    /\ call = [op |-> "init", args |-> <<>>, ret |-> <<>>, mark |-> 0, heard |-> <<>>]
    /\ popped = <<>>

\* The keys and frames transmitted since the first `mark` whose every byte
\* the engine has read (the last one may still be arriving, and bytes that
\* are on the wire have not been read).
Heard(mark) ==
    IF wire # <<>> THEN <<>>
    ELSE SubSeq(sent, mark + 1, IF cur # <<>> THEN Len(sent) - 1 ELSE Len(sent))

\* The engine moves to outcome r of the public call `op`, which began when
\* `mark` keys and frames had been transmitted.  When the call returns, the
\* history records what was transmitted and read during it; a recvInput that
\* returns a value adds it to the history of returned values.
Apply(r, op, args, mark) ==
    /\ self' = r.s
    /\ pc' = r.pc
    /\ call' = [op |-> op, args |-> args, ret |-> r.ret, mark |-> mark,
                heard |-> IF r.pc.op = "idle" /\ pc.op # "idle"
                          THEN Heard(mark) ELSE <<>>]
    /\ popped' = IF op = "recvInput" /\ r.pc.op = "idle" /\ r.ret # <<>>
                 THEN Append(popped, r.ret[1])
                 ELSE popped

\* A public call is made only when no other is in progress.
CanCall == pc.op = "idle"

(* The transport and the clock *)

\* The terminal or the user starts transmitting one key or frame.
Transmit(tokens) ==
    /\ cur = <<>>
    /\ Len(sent) < MaxTokens
    /\ \E t \in tokens :
        /\ wire' = Append(wire, Head(t))
        /\ cur' = Tail(t)
        /\ sent' = Append(sent, t)
    /\ UNCHANGED <<self, pc, call, popped>>

\* The next byte of the key or frame in transmission arrives.
Arrive ==
    /\ cur # <<>>
    /\ wire' = Append(wire, Head(cur))
    /\ cur' = Tail(cur)
    /\ UNCHANGED <<self, sent, pc, call, popped>>

\* More than CHECK_INTERVAL has passed since self.lastPolled.
Tick ==
    /\ ~self.pollDue
    /\ self.pollFailures < MaxPollFailures
    /\ self' = [self EXCEPT !.pollDue = TRUE]
    /\ UNCHANGED <<wire, cur, sent, pc, call, popped>>

\* The wait budget counted from the call's first attempt runs out during a
\* repeated attempt, whose own `start` is later.
WaitRunsOut ==
    /\ pc.op # "idle"
    /\ pc.timeout # NO_TIMEOUT
    /\ pc.wait = "again"
    /\ pc' = [pc EXCEPT !.wait = "spent"]
    /\ UNCHANGED <<self, wire, cur, sent, call, popped>>

(* _recvResponseImpl's loop *)

\* Reads that return a byte: every byte of self.leftover, then every byte
\* that has arrived, is appended to accum.
ReadBytes ==
    /\ pc.op # "idle"
    /\ self.leftover # <<>> \/ wire # <<>>
    /\ pc' = [pc EXCEPT !.accum = @ \o self.leftover \o wire,
                        !.gotResponse = TRUE]
    /\ self' = [self EXCEPT !.leftover = <<>>]
    /\ wire' = <<>>
    /\ UNCHANGED <<cur, sent, call, popped>>

\* A read that returns nothing: the loop continues, or the function returns
\* and its callers run up to their next read.
ReadEmpty ==
    /\ pc.op # "idle"
    /\ self.leftover = <<>>
    /\ wire = <<>>
    /\ \E elapsed \in BOOLEAN :
        LET r == closeRead(self, pc.accum, pc.timeout, elapsed, pc.gotResponse)
        IN  IF r.done
            THEN Apply(afterImpl(r.s, pc, r.resp), call.op, call.args, call.mark)
            ELSE /\ self' = r.s
                 /\ pc' = [pc EXCEPT !.accum = <<>>,
                                     !.gotResponse = r.gotResponse,
                                     !.wait = IF @ = "spent" /\ pc.accum = <<>>
                                              THEN "overrun" ELSE @]
                 /\ UNCHANGED <<call, popped>>
    /\ UNCHANGED <<wire, cur, sent>>

(* Public calls that read the transport *)

RecvInput ==
    /\ CanCall
    /\ Apply(recvInput(Enter(self)), "recvInput", <<>>, Len(sent))
    /\ UNCHANGED <<wire, cur, sent>>

RecvResponse(timeouts) ==
    /\ CanCall
    /\ \E timeout \in timeouts :
        Apply(recvResponse(Enter(self), Frame("recvResponse", ""), timeout),
              "recvResponse", <<timeout>>, Len(sent))
    /\ UNCHANGED <<wire, cur, sent>>

IsOk ==
    /\ CanCall
    /\ Apply(isOk(Enter(self)), "isOk", <<>>, Len(sent))
    /\ UNCHANGED <<wire, cur, sent>>

CheckOk ==
    /\ CanCall
    /\ Apply(checkOk(Enter(self), "checkOk"), "checkOk", <<>>, Len(sent))
    /\ UNCHANGED <<wire, cur, sent>>

Set132Columns ==
    /\ CanCall
    /\ Apply(set132Columns(Enter(self)), "set132Columns", <<>>, Len(sent))
    /\ UNCHANGED <<wire, cur, sent>>

Set80Columns ==
    /\ CanCall
    /\ Apply(set80Columns(Enter(self)), "set80Columns", <<>>, Len(sent))
    /\ UNCHANGED <<wire, cur, sent>>

FetchCursor ==
    /\ CanCall
    /\ Apply(fetchCursor(Enter(self)), "fetchCursor", <<>>, Len(sent))
    /\ UNCHANGED <<wire, cur, sent>>

(* Public calls that only write *)

PeekInput ==
    /\ CanCall
    /\ Apply(Finish(Enter(self), peekInput(self)), "peekInput", <<>>, Len(sent))
    /\ UNCHANGED <<wire, cur, sent>>

Reset ==
    /\ CanCall
    /\ Apply(Finish(reset(Enter(self)), <<>>), "reset", <<>>, Len(sent))
    /\ UNCHANGED <<wire, cur, sent>>

SendCommand(cmds) ==
    /\ CanCall
    /\ \E cmd \in cmds :
        Apply(Finish(sendCommand(Enter(self), cmd), <<>>), "sendCommand", <<cmd>>, Len(sent))
    /\ UNCHANGED <<wire, cur, sent>>

MoveCursor(rowInputs, colInputs) ==
    /\ CanCall
    /\ \E row \in rowInputs, col \in colInputs :
        Apply(Finish(moveCursor(Enter(self), row, col), <<>>),
              "moveCursor", <<row, col>>, Len(sent))
    /\ UNCHANGED <<wire, cur, sent>>

SetAutoWrap ==
    /\ CanCall
    /\ \E value \in BOOLEAN :
        Apply(Finish(setAutoWrap(Enter(self), value), <<>>),
              "setAutoWrap", <<value>>, Len(sent))
    /\ UNCHANGED <<wire, cur, sent>>

ClearAutoWrap ==
    /\ CanCall
    /\ Apply(Finish(clearAutoWrap(Enter(self)), <<>>), "clearAutoWrap", <<>>, Len(sent))
    /\ UNCHANGED <<wire, cur, sent>>

SetScrollRegion(tops, bottoms) ==
    /\ CanCall
    /\ \E top \in tops, bottom \in bottoms :
        Apply(Finish(setScrollRegion(Enter(self), top, bottom), <<>>),
              "setScrollRegion", <<top, bottom>>, Len(sent))
    /\ UNCHANGED <<wire, cur, sent>>

ClearScrollRegion ==
    /\ CanCall
    /\ Apply(Finish(clearScrollRegion(Enter(self)), <<>>),
             "clearScrollRegion", <<>>, Len(sent))
    /\ UNCHANGED <<wire, cur, sent>>

SendText(texts) ==
    /\ CanCall
    /\ \E text \in texts :
        Apply(Finish(sendText(Enter(self), text), <<>>), "sendText", <<text>>, Len(sent))
    /\ UNCHANGED <<wire, cur, sent>>

---------------------------------------------------------------------------
(* Inputs *)

\* Every command the class names, a move and a scroll region.
AllCommands ==
    { SET_NORMAL, SET_BOLD, SET_UNDERLINE, SET_REVERSE,
      SET_132_COLUMNS, SET_80_COLUMNS, TURN_ON_AUTOWRAP, TURN_OFF_AUTOWRAP,
      G0_UK_CHARSET, G0_US_CHARSET, G0_BOX_CHARSET,
      G1_UK_CHARSET, G1_US_CHARSET, G1_BOX_CHARSET,
      TURN_ON_REGION, TURN_OFF_REGION,
      DOUBLE_HEIGHT_TOP, DOUBLE_HEIGHT_BOTTOM, DOUBLE_WIDTH, NORMAL_SIZE,
      REQUEST_STATUS, REQUEST_CURSOR, SAVE_CURSOR, RESTORE_CURSOR,
      MOVE_CURSOR_ORIGIN, MOVE_CURSOR_UP, MOVE_CURSOR_DOWN,
      CLEAR_TO_ORIGIN, CLEAR_TO_END_OF_LINE, CLEAR_SCREEN, CLEAR_LINE,
      RegionCommand(1, 24), MoveCommand(1, 1) }

\* Rows and columns around the edges of both geometries.
RowInputs == {0, 1, ROWS, ROWS + 1}
ColInputs == {0, 1, COLUMNS_80, COLUMNS_80 + 1, COLUMNS_132, COLUMNS_132 + 1}

\* What the transport can deliver: plain keys, an arrow key, the status
\* answer, cursor reports (one for a screen taller than 24 rows), a frame
\* the user typed, and a bare escape key.
KeyA == <<"a">>
KeyB == <<"b">>
ArrowUp == <<ESCAPE>> \o UP
ArrowLeft == <<ESCAPE>> \o LEFT
StatusFrame == <<ESCAPE>> \o STATUS_OKAY
ReportFrame == <<ESCAPE, "[", "3", ";", "4", "R">>
TallReportFrame == <<ESCAPE, "[", "3", "0", ";", "4", "R">>
TypedFrame == <<ESCAPE, "[", "Z", "m">>
BareEscape == <<ESCAPE>>

\* Cursor reports that lack a field: no field, one field, two empty fields.
EmptyReportFrame == <<ESCAPE, "[", "R">>
OneFieldReportFrame == <<ESCAPE, "[", "5", "R">>
BlankFieldsReportFrame == <<ESCAPE, "[", ";", "R">>

\* Characters for sendText, by code point: 'h', newline, carriage return,
\* tab, backspace, delete, e-acute (default slot), a box-drawing line and a
\* character without a mapping (alternate slot), and the four fills.
LetterH == 104
Newline == 10
CarriageReturn == 13
Tab == 9
Backspace == 8
Delete == 127
EAcute == 233
BoxHorizontal == 9472
Unmapped == 20013
LightShade == 9617
MediumShade == 9618
DarkShadeChar == 9619
FullBlock == 9608

\* "hello"
Hello == <<104, 101, 108, 108, 111>>

\* Every text of at most MaxTextLen characters of the alphabet.
TextsOver(alphabet) == UNION {[1..k -> alphabet] : k \in 0..MaxTextLen}

\* Texts that move the cursor: plain characters, line ends and a tab in
\* every order, the other controls and multi-byte characters, and "hello".
CursorTexts ==
    TextsOver({LetterH, Newline, Tab})
        \cup {<<CarriageReturn>>, <<Backspace>>, <<Delete>>, <<EAcute>>,
              <<FullBlock>>, Hello}

\* Texts that change the graphic slot and draw fills.
GlyphTexts ==
    TextsOver({LetterH, BoxHorizontal,
               LightShade, MediumShade, DarkShadeChar, FullBlock})
        \cup {<<EAcute>>, <<Unmapped>>, <<Unmapped, EAcute>>, <<EAcute, Unmapped>>}

\* Characters for the glyph table: all of ASCII and Latin-1, every character
\* above them that fb names (box drawing, fills, symbols, quote and
\* punctuation variants), and three it does not name: A with macron, a
\* heavy box-drawing line and a CJK character.
TableChars ==
    (0..255)
        \cup {9472, 9474, 9484, 9488, 9492, 9496, 9532, 9500, 9508, 9524, 9516}
        \cup {9617, 9618, 9619, 9608}
        \cup {8804, 8805, 960, 8800, 8226}
        \cup {8216, 8217, 8218, 8219, 8242, 8245}
        \cup {8220, 8221, 8222, 8223, 8243, 8246}
        \cup {8270, 8277, 8271, 8274, 8275}
        \cup {256, 9473, 20013}

\* The one-character texts over them.
TableTexts == {<<c>> : c \in TableChars}

\* Targets for moveCursor ahead of sendText: the scenario's (5, 10), the
\* last column and the last row.
TextRows == {5, ROWS}
TextCols == {10, COLUMNS_80}

---------------------------------------------------------------------------
(* Specifications *)

\* The command encoder and the tracked state: calls that only write.
NextCmd ==
    \/ SendCommand(AllCommands)
    \/ MoveCursor(RowInputs, ColInputs)
    \/ SetAutoWrap
    \/ ClearAutoWrap
    \/ SetScrollRegion({1}, {ROWS})
    \/ ClearScrollRegion
    \/ Reset

SpecCmd == Init /\ [][NextCmd]_vars

\* The demultiplexer under plain keys, arrow keys and complete response
\* frames, with the four calls that read the transport interleaved.  Calls
\* follow one another within CHECK_INTERVAL, so recvInput's periodic check
\* is not due.
KeyStream == {KeyA, KeyB, ArrowUp, ReportFrame}

NextKeys ==
    \/ Transmit(KeyStream)
    \/ Arrive
    \/ ReadBytes
    \/ ReadEmpty
    \/ RecvInput
    \/ RecvResponse({OK_TIMEOUT})
    \/ IsOk
    \/ FetchCursor

SpecKeys == Init /\ [][NextKeys]_vars

\* fetchCursor under cursor reports, a frame the user typed, and recvInput
\* running ahead of it.
FetchStream == {TypedFrame, ReportFrame, TallReportFrame}

NextFetch ==
    \/ Transmit(FetchStream)
    \/ Arrive
    \/ ReadBytes
    \/ ReadEmpty
    \/ FetchCursor
    \/ RecvInput

SpecFetch == Init /\ [][NextFetch]_vars

\* The liveness check and the input pump under keys, the status answer and
\* a bare escape key.  The engine's loop keeps running (weak fairness of its
\* reads); the transport owes nothing and may fall silent at any time.
StatusStream == {KeyA, StatusFrame, ReportFrame, BareEscape}

NextStatus ==
    \/ Transmit(StatusStream)
    \/ Arrive
    \/ Tick
    \/ ReadBytes
    \/ ReadEmpty
    \/ RecvInput
    \/ RecvResponse({OK_TIMEOUT})
    \/ IsOk

SpecStatus ==
    /\ Init
    /\ [][NextStatus]_vars
    /\ WF_vars(ReadBytes)
    /\ WF_vars(ReadEmpty)

\* fetchCursor under cursor reports that lack a field.
ReportStream ==
    {EmptyReportFrame, OneFieldReportFrame, BlankFieldsReportFrame, ReportFrame}

NextReports ==
    \/ Transmit(ReportStream)
    \/ Arrive
    \/ ReadBytes
    \/ ReadEmpty
    \/ FetchCursor

SpecReports == Init /\ [][NextReports]_vars

\* sendText's cursor prediction: texts sent from known and unknown
\* positions, with autowrap on and off.
NextText ==
    \/ SendText(CursorTexts)
    \/ MoveCursor(TextRows, TextCols)
    \/ SetAutoWrap
    \/ SendCommand({CLEAR_SCREEN})

SpecText == Init /\ [][NextText]_vars

\* sendText's encoding: texts across both graphic slots under every
\* combination of the tracked attributes.
NextGlyph ==
    \/ SendText(GlyphTexts)
    \/ SendCommand({SET_NORMAL, SET_BOLD, SET_UNDERLINE, SET_REVERSE})
    \/ Reset

SpecGlyph == Init /\ [][NextGlyph]_vars

\* The column switches and the hard liveness check under a key, the status
\* answer and a cursor report.
ColumnStream == {KeyA, StatusFrame, ReportFrame}

NextColumns ==
    \/ Transmit(ColumnStream)
    \/ Arrive
    \/ ReadBytes
    \/ ReadEmpty
    \/ Set132Columns
    \/ Set80Columns
    \/ CheckOk

SpecColumns == Init /\ [][NextColumns]_vars

\* recvInput's periodic liveness check: the clock passes CHECK_INTERVAL
\* between calls while a key, the status answer and a cursor report arrive.
PollStream == {KeyA, StatusFrame, ReportFrame}

NextPoll ==
    \/ Transmit(PollStream)
    \/ Arrive
    \/ Tick
    \/ ReadBytes
    \/ ReadEmpty
    \/ RecvInput

SpecPoll == Init /\ [][NextPoll]_vars

\* recvResponse and recvInput taking turns while keys, an arrow key and two
\* kinds of response frame arrive.
ResponseStream == {KeyA, ArrowUp, StatusFrame, ReportFrame}

NextResponses ==
    \/ Transmit(ResponseStream)
    \/ Arrive
    \/ ReadBytes
    \/ ReadEmpty
    \/ RecvInput
    \/ RecvResponse({OK_TIMEOUT})

SpecResponses == Init /\ [][NextResponses]_vars

\* peekInput ahead of recvInput while keys and an arrow key arrive and the
\* periodic liveness check comes due on a terminal that never answers it.
PeekStream == {KeyA, KeyB, ArrowUp}

NextPeek ==
    \/ Transmit(PeekStream)
    \/ Arrive
    \/ Tick
    \/ ReadBytes
    \/ ReadEmpty
    \/ PeekInput
    \/ RecvInput

SpecPeek == Init /\ [][NextPeek]_vars

\* sendText's glyph table: every character fb distinguishes, sent alone
\* from either graphic slot under every combination of the attributes.
NextTable ==
    \/ SendText(TableTexts)
    \/ SendCommand({SET_NORMAL, SET_BOLD, SET_UNDERLINE, SET_REVERSE})

SpecTable == Init /\ [][NextTable]_vars

\* recvResponse while nothing but arrow keys arrives and the clock passes
\* the wait budget of the call.
WaitStream == {ArrowUp, ArrowLeft}

NextWait ==
    \/ Transmit(WaitStream)
    \/ Arrive
    \/ WaitRunsOut
    \/ ReadBytes
    \/ ReadEmpty
    \/ RecvResponse({OK_TIMEOUT})

SpecWait == Init /\ [][NextWait]_vars

\* recvResponse under a bare escape key, a plain key and the status answer.
\* The engine's loop keeps running (weak fairness of its reads); the
\* transport owes nothing and may fall silent at any time.
EscapeStream == {BareEscape, KeyA, StatusFrame}

NextEscape ==
    \/ Transmit(EscapeStream)
    \/ Arrive
    \/ ReadBytes
    \/ ReadEmpty
    \/ RecvResponse({OK_TIMEOUT})

SpecEscape ==
    /\ Init
    /\ [][NextEscape]_vars
    /\ WF_vars(ReadBytes)
    /\ WF_vars(ReadEmpty)

\* recvResponse while response frames, and nothing else, arrive in pieces.
SplitStream == {StatusFrame, ReportFrame}

NextSplit ==
    \/ Transmit(SplitStream)
    \/ Arrive
    \/ ReadBytes
    \/ ReadEmpty
    \/ RecvResponse({OK_TIMEOUT})

SpecSplit == Init /\ [][NextSplit]_vars

\* fetchCursor under cursor reports, with commands that invalidate the
\* cursor cache between the calls.
StaleStream == {ReportFrame, TallReportFrame}

NextStale ==
    \/ Transmit(StaleStream)
    \/ Arrive
    \/ ReadBytes
    \/ ReadEmpty
    \/ FetchCursor
    \/ SendCommand({CLEAR_SCREEN})

SpecStale == Init /\ [][NextStale]_vars

---------------------------------------------------------------------------
(* Properties of the command encoder, under SpecCmd *)

\* The fields of s other than the per-call `written` and `raised`.
Fields(s) == [s EXCEPT !.written = <<>>, !.raised = "none"]

\* 1 <= row <= rows and 1 <= col <= columns.
WithinScreen(row, col, rows, columns) == row \in 1..rows /\ col \in 1..columns

\* C4: moveCursor(row, col) with row outside [1, rows] or col outside
\* [1, columns], for the current column mode, writes no byte, leaves the
\* cursor cache and every other field as they were, and raises nothing.
C4_MoveOutsideIsNoOp ==
    [][ ( /\ call'.op = "moveCursor"
          /\ ~WithinScreen(call'.args[1], call'.args[2], self.rows, self.columns) )
        => ( /\ self'.written = <<>>
             /\ self'.raised = "none"
             /\ Fields(self') = Fields(self) ) ]_vars

\* A move to column 81 was refused in 80-column mode while the cursor was known.
C4_Witness ==
    /\ call.op = "moveCursor"
    /\ call.args = <<1, COLUMNS_80 + 1>>
    /\ self.columns = COLUMNS_80
    /\ self.cursor = <<ROWS, COLUMNS_80>>
    /\ self.written = <<>>

\* The bytes between positions 3 and the last but one of a move command.
MoveFields(written) == SubSeq(written, 3, Len(written) - 1)

\* C5: moveCursor(row, col) with 1 <= row <= rows and 1 <= col <= columns
\* writes exactly ESC [ row ; col H, both numbers in decimal without leading
\* zeros, and leaves the cursor cache equal to (row, col).
C5_MoveInsideWritesAndCaches ==
    ( /\ call.op = "moveCursor"
      /\ WithinScreen(call.args[1], call.args[2], self.rows, self.columns) )
    => ( /\ self.cursor = call.args
         /\ self.raised = "none"
         /\ Len(self.written) >= 6
         /\ self.written[1] = "ESC"
         /\ self.written[2] = "["
         /\ self.written[Len(self.written)] = "H"
         /\ LET f == MoveFields(self.written)
                row == RowField(f)
                col == ColField(f)
            IN  /\ IndexOf(f, ";") > 0
                /\ IsNumber(row) /\ row[1] # "0" /\ ParseInt(row) = call.args[1]
                /\ IsNumber(col) /\ col[1] # "0" /\ ParseInt(col) = call.args[2] )

\* A move to the last cell of the 132-column screen.
C5_Witness ==
    /\ call.op = "moveCursor"
    /\ call.args = <<ROWS, COLUMNS_132>>
    /\ self.columns = COLUMNS_132
    /\ self.cursor = <<ROWS, COLUMNS_132>>

\* The commands C7 names as leaving the cursor cache alone, and those it
\* names as invalidating it.
C7_Keeping ==
    { SET_NORMAL, SET_BOLD, SET_UNDERLINE, SET_REVERSE,
      TURN_ON_AUTOWRAP, TURN_OFF_AUTOWRAP,
      G0_UK_CHARSET, G0_US_CHARSET, G0_BOX_CHARSET,
      G1_UK_CHARSET, G1_US_CHARSET, G1_BOX_CHARSET,
      TURN_ON_REGION, TURN_OFF_REGION,
      REQUEST_STATUS, REQUEST_CURSOR, SAVE_CURSOR }

C7_Invalidating ==
    { CLEAR_SCREEN, CLEAR_LINE, CLEAR_TO_ORIGIN, CLEAR_TO_END_OF_LINE,
      MOVE_CURSOR_ORIGIN, SET_80_COLUMNS, SET_132_COLUMNS,
      RegionCommand(1, 24), RESTORE_CURSOR,
      MOVE_CURSOR_UP, MOVE_CURSOR_DOWN }

\* C7: sendCommand(cmd) leaves the cursor cache untouched when cmd is an
\* attribute-set command, an autowrap toggle, a character-set designation,
\* a scroll-region toggle, a status or cursor query, or save-cursor, and
\* sets it to Unknown for the other commands the claim names (clear
\* screen/line, home, column switch, set-region, restore-cursor, relative
\* moves).
C7_SendCommandCursor ==
    [][ call'.op = "sendCommand"
        => ( /\ call'.args[1] \in C7_Keeping => self'.cursor = self.cursor
             /\ call'.args[1] \in C7_Invalidating => self'.cursor = UNKNOWN ) ]_vars

\* C8: setAutoWrap(v) writes an autowrap sequence if and only if the tracked
\* flag differs from v, that sequence being ESC[?7h for true and ESC[?7l for
\* false; a call that repeats the previous call's value writes nothing; and
\* after the call the flag equals v and the cursor cache is unchanged.
C8_SetAutoWrapIdempotent ==
    [][ call'.op = "setAutoWrap"
        => LET v == call'.args[1]
           IN  /\ (self'.written # <<>>) <=> (self.autowrap # v)
               /\ self'.written \in
                    { <<>>,
                      IF v THEN <<"ESC", "[", "?", "7", "h">>
                           ELSE <<"ESC", "[", "?", "7", "l">> }
               /\ (call.op = "setAutoWrap" /\ call.args = <<v>>)
                    => self'.written = <<>>
               /\ self'.autowrap = v
               /\ self'.cursor = self.cursor
               /\ self'.raised = "none" ]_vars

\* A second setAutoWrap(True) in a row wrote nothing, the cursor being known.
C8_Witness ==
    /\ call.op = "setAutoWrap"
    /\ call.args = <<TRUE>>
    /\ self.autowrap
    /\ self.written = <<>>
    /\ self.cursor = <<1, 1>>

---------------------------------------------------------------------------
(* Properties of the demultiplexer *)

Arrows == {UP, DOWN, LEFT, RIGHT}

\* The input token of a transmitted key: the byte of a plain key, the frame
\* without its ESC of an arrow key.
KeyToken(t) == IF Head(t) = "ESC" THEN Tail(t) ELSE t

IsKey(t) == Head(t) # "ESC" \/ Tail(t) \in Arrows

\* The keys among the transmitted keys and frames, in transmission order.
KeysSent == [i \in 1..Len(SelectSeq(sent, IsKey)) |-> KeyToken(SelectSeq(sent, IsKey)[i])]

\* Every transmitted byte has been read and framed.
Drained ==
    /\ wire = <<>>
    /\ cur = <<>>
    /\ self.leftover = <<>>
    /\ pc.accum = <<>>

IsPrefix(a, b) == Len(a) <= Len(b) /\ a = SubSeq(b, 1, Len(a))

\* C1: for a stream of plain keys, complete arrow-key frames and complete
\* response frames, however it is chunked across reads and however
\* recvInput, recvResponse, isOk and fetchCursor are interleaved, the values
\* recvInput has returned followed by the queued tokens are the keys
\* transmitted so far, in transmission order (nothing of a response frame,
\* nothing duplicated or reordered), and once every byte has been read no
\* key is missing.
C1_KeysInArrivalOrder ==
    /\ IsPrefix(popped \o self.pending, KeysSent)
    /\ Drained => popped \o self.pending = KeysSent

\* 'b', a cursor report and the up arrow were transmitted, and recvInput
\* has returned 'b' and then the arrow.
C1_Witness ==
    /\ sent = <<KeyB, ReportFrame, ArrowUp>>
    /\ popped = <<<<"b">>, UP>>

\* C2: recvResponse never returns an arrow-key frame and none is ever stored
\* in the ResponseBuffer; once every byte has been read, each arrow key
\* transmitted is one token of the input queue or was returned by recvInput.
C2_ArrowsOnlyThroughInput ==
    /\ \A i \in 1..Len(self.responses) : self.responses[i] \notin Arrows
    /\ (call.op = "recvResponse" /\ pc.op = "idle") => call.ret[1] \notin Arrows
    /\ Drained =>
         Len(SelectSeq(popped \o self.pending, LAMBDA k : k \in Arrows))
           = Len(SelectSeq(sent, LAMBDA f : Head(f) = "ESC" /\ Tail(f) \in Arrows))

\* recvResponse read an arrow key and a report in one burst: it returned the
\* report and the arrow is queued as one token.
C2_Witness ==
    /\ call.op = "recvResponse"
    /\ pc.op = "idle"
    /\ call.ret = <<<<"[", "3", ";", "4", "R">>>>
    /\ call.heard = <<ArrowUp, ReportFrame>>
    /\ self.pending = <<UP>>

\* C3: every recvInput call, and every recvResponse call with a positive
\* wait budget, eventually returns or raises, whatever finite sequence of
\* bytes the transport delivers before falling silent.
C3_CallsReturn ==
    (pc.op \in {"recvInput", "recvResponse"} /\ pc.timeout # NO_TIMEOUT)
        ~> (pc.op = "idle")

\* C6: the cursor cache is either Unknown or a pair (row, col) with
\* 1 <= row <= rows and 1 <= col <= columns for the current column mode.
C6_CursorUnknownOrOnScreen ==
    \/ self.cursor = <<-1, -1>>
    \/ (self.cursor[1] \in 1..self.rows /\ self.cursor[2] \in 1..self.columns)

\* The terminal transmitted ESC[0n after the last call began and the engine
\* read all of it before the call returned.
Answered == \E i \in 1..Len(call.heard) : call.heard[i] = StatusFrame

\* isOk returned true although no answer to its request was transmitted.
IsOkTrueUnanswered ==
    call.op = "isOk" /\ pc.op = "idle" /\ call.ret = <<TRUE>> /\ ~Answered

\* isOk returned false although the terminal answered its request in time.
IsOkFalseAnswered ==
    call.op = "isOk" /\ pc.op = "idle" /\ call.ret = <<FALSE>> /\ Answered

\* C9: in every engine state, isOk writes the status request ESC[5n, never
\* raises, and returns true exactly when the terminal answered that request
\* with ESC[0n before the call returned.
C9_IsOkIffAnswered ==
    /\ (call.op = "isOk" /\ pc.op = "idle")
       => (self.written = <<"ESC", "[", "5", "n">> /\ self.raised = "none")
    /\ ~IsOkFalseAnswered
    /\ ~IsOkTrueUnanswered

\* The response frames among the transmitted frames that are shaped like a
\* cursor report, ESC [ ... R.
ReportsSent ==
    SelectSeq(sent, LAMBDA f : Len(f) >= 3 /\ f[1] = "ESC" /\ f[2] = "["
                               /\ f[Len(f)] = "R")

\* The position a report ESC [ r ; c R states.
Stated(f) ==
    LET body == SubSeq(f, 3, Len(f) - 1)
        semi == CHOOSE i \in 1..Len(body) : body[i] = ";"
    IN  <<ParseInt(SubSeq(body, 1, semi - 1)),
          ParseInt(SubSeq(body, semi + 1, Len(body)))>>

\* C10: starting from an Unknown cache, fetchCursor discards the frames that
\* are not shaped like a cursor report and takes the first report: a known
\* cache holds the position the first report transmitted states, a
\* fetchCursor that returns gives that position, none raises anything but
\* the exhaustion of its attempts, and once a report has been read and
\* handed to fetchCursor the cache is known.
C10_FirstReportWins ==
    /\ CursorKnown(self) =>
         (ReportsSent # <<>> /\ self.cursor = Stated(ReportsSent[1]))
    /\ (call.op = "fetchCursor" /\ pc.op = "idle") =>
         /\ self.raised \in {"none", "TerminalException"}
         /\ self.raised = "none" => call.ret = self.cursor
         /\ (Drained /\ self.responses = <<>> /\ ReportsSent # <<>>) =>
              CursorKnown(self)

\* The frame the user typed came first and was discarded; the report that
\* followed it was returned.
C10_Witness ==
    /\ call.op = "fetchCursor"
    /\ pc.op = "idle"
    /\ call.heard = <<TypedFrame, ReportFrame>>
    /\ call.ret = <<3, 4>>
    /\ self.cursor = <<3, 4>>

---------------------------------------------------------------------------
(* Properties of fetchCursor, under SpecFetch and SpecReports *)

\* C11: when the cursor cache is known, fetchCursor returns the cached
\* (row, col) at once: it writes no byte, reads nothing from the transport,
\* and leaves the ResponseBuffer, the PendingInputQueue, the LeftoverBuffer
\* and every other field as they were.
C11_KnownCursorIsCached ==
    [][ (FetchCursor /\ CursorKnown(self))
        => ( /\ pc'.op = "idle"
             /\ call'.ret = self.cursor
             /\ self'.written = <<>>
             /\ self'.raised = "none"
             /\ wire' = wire
             /\ Fields(self') = Fields(self) ) ]_vars

\* fetchCursor was called with the cache holding (3, 4), a key queued and an
\* unread frame on the wire, and returned (3, 4).
C11_Witness ==
    /\ call.op = "fetchCursor"
    /\ pc.op = "idle"
    /\ call.heard = <<>>
    /\ call.ret = <<3, 4>>
    /\ self.written = <<>>
    /\ self.pending # <<>>
    /\ wire # <<>>

\* ESC[6n
CursorRequest == <<"ESC", "[", "6", "n">>

RECURSIVE Requests(_)
\* n cursor requests in a row.
Requests(n) == IF n = 0 THEN <<>> ELSE CursorRequest \o Requests(n - 1)

\* The receive attempt in progress ends without a frame: nothing but plain
\* bytes, or nothing at all, was read before the wait ran out.
EmptyAttemptEnds ==
    /\ pc.op = "fetchCursor"
    /\ pc'.op = "idle" \/ pc'.attempt # pc.attempt
    /\ \A i \in 1..Len(pc.accum) : pc.accum[i] # "ESC"

\* C12: with an Unknown cache fetchCursor makes at most 12 receive attempts,
\* each with a 0.25 s wait; after each empty attempt it sends the cursor
\* request again; and when the twelfth attempt ends without a cursor
\* report it raises TerminalUnresponsive with the cache still Unknown.
C12_TwelveAttemptsThenRaise ==
    [][ /\ pc.op = "fetchCursor"
           => ( /\ pc.attempt \in 0..11
                /\ pc.timeout = 25
                /\ self.cursor = <<-1, -1>> )
        /\ EmptyAttemptEnds
           => ( /\ self'.written = self.written \o CursorRequest
                /\ pc.attempt < 11 =>
                      (pc'.op = "fetchCursor" /\ pc'.attempt = pc.attempt + 1) )
        /\ ( /\ pc.op = "fetchCursor"
             /\ pc.attempt = 11
             /\ pc'.op = "idle"
             /\ ~CursorKnown(self') )
           => (self'.raised = "TerminalException" /\ self'.cursor = <<-1, -1>>)
        /\ (pc.op = "fetchCursor" /\ self'.raised = "TerminalException")
           => pc.attempt = 11 ]_vars

\* Twelve attempts on a silent transport: the request went out thirteen
\* times and fetchCursor raised with the cache Unknown.
C12_Witness ==
    /\ call.op = "fetchCursor"
    /\ pc.op = "idle"
    /\ sent = <<>>
    /\ self.raised = "TerminalException"
    /\ self.written = Requests(13)
    /\ self.cursor = <<-1, -1>>

\* C13: TerminalUnresponsive is the only error a public operation surfaces.
\* Whatever frames arrive, fetchCursor returns a position or raises
\* TerminalUnresponsive; a frame that is not a well-formed cursor report
\* with two numeric fields ([R, [5R, [;R) is discarded and the read retried.
C13_OnlyTerminalUnresponsive ==
    /\ self.raised \in {"none", "TerminalException"}
    /\ (call.op = "fetchCursor" /\ pc.op = "idle" /\ self.raised = "none")
       => (CursorKnown(self) /\ call.ret = self.cursor)

---------------------------------------------------------------------------
(* Properties of sendText's encoding, under SpecGlyph *)

\* The graphic slot a character is drawn in: TRUE for the alternate one.
AltSlot(data) == Glyph(InitSelf, FALSE, data).inAlt

ShiftBytes == {"SO", "SI"}

\* The bytes of one character apart from any shift byte.
OwnBytes(s, data) ==
    SelectSeq(Glyph(s, FALSE, data).bytes, LAMBDA b : b \notin ShiftBytes)

RECURSIVE ShiftedAtChanges(_, _, _)
\* The bytes of a text with one shift byte ahead of each character whose
\* slot differs from the slot before it, `slot` being the slot before the
\* first character.
ShiftedAtChanges(s, slot, text) ==
    IF text = <<>> THEN <<>>
    ELSE LET a == AltSlot(Head(text))
         IN  (IF a # slot THEN <<IF a THEN "SO" ELSE "SI">> ELSE <<>>)
                 \o OwnBytes(s, Head(text))
                 \o ShiftedAtChanges(s, a, Tail(text))

\* C14: in the bytes sendText writes, a shift byte (0x0E into the alternate
\* slot, 0x0F into the default slot) stands exactly ahead of each character
\* whose slot differs from the slot of the character before it, the slot
\* before the first character being the stored one; and after sendText the
\* stored slot is the slot of the last character (unchanged for an empty
\* text).
C14_ShiftOnlyAtSlotChange ==
    [][ call'.op = "sendText"
        => LET text == call'.args[1]
           IN  /\ self'.written = ShiftedAtChanges(self, self.boxMode, text)
               /\ self'.boxMode = IF text = <<>> THEN self.boxMode
                                  ELSE AltSlot(text[Len(text)]) ]_vars

\* Two box-drawing characters were sent after a sendText that had left the
\* alternate slot selected: no shift byte was written.
C14_Witness ==
    /\ call.op = "sendText"
    /\ call.args = <<(<<BoxHorizontal, BoxHorizontal>>)>>
    /\ self.written = <<"q", "q">>
    /\ self.boxMode

\* The attributes the engine tracks.
Tracked(s) == [bolded |-> s.bolded, underlined |-> s.underlined, reversed |-> s.reversed]

\* A terminal's attributes after the attribute command ESC [ d m.
Rendered(attrs, d) ==
    CASE d = "0" -> [bolded |-> FALSE, underlined |-> FALSE, reversed |-> FALSE]
      [] d = "1" -> [attrs EXCEPT !.bolded = TRUE]
      [] d = "4" -> [attrs EXCEPT !.underlined = TRUE]
      [] d = "7" -> [attrs EXCEPT !.reversed = TRUE]
      [] OTHER -> attrs

RECURSIVE Rendition(_, _)
\* The attributes of a terminal that had `attrs` and interpreted `bytes`.
Rendition(attrs, bytes) ==
    IF bytes = <<>> THEN attrs
    ELSE IF Len(bytes) >= 4 /\ bytes[1] = "ESC" /\ bytes[2] = "[" /\ bytes[4] = "m"
    THEN Rendition(Rendered(attrs, bytes[3]), SubSeq(bytes, 5, Len(bytes)))
    ELSE Rendition(attrs, Tail(bytes))

Fills == {LightShade, MediumShade, DarkShadeChar, FullBlock}

\* C15: for each of the four fill characters and every combination of the
\* tracked bold, underline and reverse flags, a terminal that held the
\* tracked attributes and interprets the bytes sendText wrote ends with
\* the same attributes, and sendText leaves the tracked flags as they were.
C15_FillsRestoreAttributes ==
    [][ ( /\ call'.op = "sendText"
          /\ \E i \in 1..Len(call'.args[1]) : call'.args[1][i] \in Fills )
        => ( /\ Rendition(Tracked(self), self'.written) = Tracked(self)
             /\ Tracked(self') = Tracked(self) ) ]_vars

\* The solid block was sent with bold, underline and reverse all set: the
\* attributes were cleared around the space and set again after it.
C15_Witness ==
    /\ call.op = "sendText"
    /\ call.args = <<(<<FullBlock>>)>>
    /\ self.bolded /\ self.underlined /\ self.reversed
    /\ self.written = <<"ESC", "[", "0", "m", " ", "ESC", "[", "7", "m",
                        "ESC", "[", "1", "m", "ESC", "[", "4", "m">>

---------------------------------------------------------------------------
(* Properties of sendText's cursor prediction, under SpecText *)

LineEnds == {CarriageReturn, Newline}

\* Characters that are neither C0 controls nor DEL.
Ordinary(data) == data >= 32 /\ data # 127

\* C0 controls other than carriage return and newline; tab is one of them.
OtherControl(data) == data < 32 /\ data \notin LineEnds

AllOf(text, P(_)) == \A i \in 1..Len(text) : P(text[i])

\* How far past the last column n characters sent from column c end.
Overflow(s, n) == s.cursor[2] + n - s.columns - 1

\* C16: with a known starting cursor (r, c), sendText of n ordinary
\* characters advances the column by one per character, however many bytes
\* each is written as: (r, c + n) while the line is not full; past the last
\* column, column 1 of the next row (and on from there) with autowrap
\* enabled, the last column of the same row without it.
C16_OrdinaryAdvanceColumn ==
    [][ ( /\ call'.op = "sendText"
          /\ CursorKnown(self)
          /\ AllOf(call'.args[1], Ordinary) )
        => LET n == Len(call'.args[1])
               r == self.cursor[1]
               c == self.cursor[2]
               k == Overflow(self, n)
           IN  IF c + n <= self.columns THEN self'.cursor = <<r, c + n>>
               ELSE IF ~self.autowrap THEN self'.cursor = <<r, self.columns>>
               ELSE r + 1 + (k \div self.columns) <= self.rows
                    => self'.cursor = <<r + 1 + (k \div self.columns),
                                       1 + (k % self.columns)>> ]_vars

\* The scenario of the specification: "hello" sent from (5, 10) at 80
\* columns left the cursor at (5, 15).
C16_Witness ==
    /\ call.op = "sendText"
    /\ call.args = <<Hello>>
    /\ self.columns = 80
    /\ self.cursor = <<5, 15>>
    /\ self.written = <<"h", "e", "l", "l", "o">>

\* C17: with a known starting cursor, each carriage return or newline
\* moves the prediction to column 1 of the next row; and whenever the
\* predicted row, through a line end or through autowrap, exceeds the row
\* count, the cursor cache ends Unknown and never holds a row above rows.
C17_LineEndsAndBottom ==
    [][ (call'.op = "sendText" /\ CursorKnown(self) /\ self.cursor[1] <= self.rows)
        => LET text == call'.args[1]
               n == Len(text)
               r == self.cursor[1]
               k == Overflow(self, n)
           IN  /\ (n > 0 /\ AllOf(text, LAMBDA d : d \in LineEnds))
                  => self'.cursor = IF r + n <= self.rows THEN <<r + n, 1>>
                                    ELSE <<-1, -1>>
               /\ ( /\ AllOf(text, Ordinary)
                    /\ self.autowrap
                    /\ k >= 0
                    /\ r + 1 + (k \div self.columns) > self.rows )
                  => self'.cursor = <<-1, -1>>
               /\ CursorKnown(self') => self'.cursor[1] <= self.rows ]_vars

\* Two newlines took the cursor to column 1 of the last row.
C17_Witness ==
    /\ call.op = "sendText"
    /\ call.args = <<(<<Newline, Newline>>)>>
    /\ self.cursor = <<ROWS, 1>>

---------------------------------------------------------------------------
(* Properties of save/restore cursor and reset, under SpecCmd *)

\* The tracked attributes that save-cursor snapshots.
Attributes(s) == <<s.bolded, s.underlined, s.reversed, s.boxMode>>

\* The snapshot restore-cursor is to use: that of the most recent
\* save-cursor, or the all-false one set at construction.
SavedAttributes(s) == IF s.lastMode = <<>> THEN s.lastModes ELSE s.lastMode

\* C19: restore-cursor sets bold, underline, reverse and boxMode to the
\* snapshot taken at the most recent save-cursor, or to the initial
\* all-false snapshot if there was none, and completes without error in
\* every reachable state; save-cursor changes nothing but the snapshot.
C19_RestoreUsesSnapshot ==
    [][ call'.op = "sendCommand"
        => ( /\ call'.args[1] = <<"8">>
                => ( /\ self'.raised = "none"
                     /\ Attributes(self') = SavedAttributes(self) )
             /\ call'.args[1] = <<"7">>
                => ( /\ self'.raised = "none"
                     /\ SavedAttributes(self') = Attributes(self)
                     /\ [Fields(self') EXCEPT !.lastMode = <<>>]
                          = [Fields(self) EXCEPT !.lastMode = <<>>] ) ) ]_vars

\* The commands of reset as bytes on the wire.
Select80Columns == <<"ESC", "[", "?", "3", "l">>
RegionOff == <<"ESC", "[", "?", "6", "l">>
FullScreenRegion == <<"ESC", "[", "1", ";", "2", "4", "r">>
ClearScreen == <<"ESC", "[", "2", "J">>
HomeCursor == <<"ESC", "[", "H">>
ClearAttributes == <<"ESC", "[", "0", "m">>
DesignateSlots == <<"ESC", "(", "B", "ESC", ")", "0">>
AutowrapOff == <<"ESC", "[", "?", "7", "l">>
ShiftIn == <<"SI">>

\* C20 as stated: reset writes, in this order, select 80-column mode, turn
\* off scroll region, set the full-screen scroll region [1;24r, clear
\* screen, home cursor, clear all attributes, designate the character sets
\* of both graphic slots, disable autowrap, then the shift byte 0x0F.
C20_ResetOrderAsStated ==
    (call.op = "reset")
    => self.written = Select80Columns \o RegionOff \o FullScreenRegion
                        \o ClearScreen \o HomeCursor \o ClearAttributes
                        \o DesignateSlots \o AutowrapOff \o ShiftIn

\* C20 as amended: reset writes, in this order, select 80-column mode, set
\* the full-screen scroll region [1;24r, turn off scroll region, clear
\* screen, home cursor, clear all attributes, designate the character sets
\* of both graphic slots, disable autowrap, then the shift byte 0x0F.
C20_ResetOrder ==
    (call.op = "reset")
    => self.written = Select80Columns \o FullScreenRegion \o RegionOff
                        \o ClearScreen \o HomeCursor \o ClearAttributes
                        \o DesignateSlots \o AutowrapOff \o ShiftIn

\* reset ran after bold had been set and saved by a save-cursor: its forty
\* bytes went out and the defaults are back.
C20_Witness ==
    /\ call.op = "reset"
    /\ Len(self.written) = 40
    /\ self.columns = 80
    /\ ~self.autowrap
    /\ ~self.bolded
    /\ self.lastMode = <<TRUE, FALSE, FALSE, FALSE>>

\* The fields reset is to bring back to their defaults, the snapshot apart.
ResetFields(s) ==
    [ columns |-> s.columns, rows |-> s.rows, bolded |-> s.bolded,
      underlined |-> s.underlined, reversed |-> s.reversed,
      boxMode |-> s.boxMode, autowrap |-> s.autowrap, cursor |-> s.cursor ]

ResetDefaults ==
    [ columns |-> 80, rows |-> 24, bolded |-> FALSE, underlined |-> FALSE,
      reversed |-> FALSE, boxMode |-> FALSE, autowrap |-> FALSE,
      cursor |-> <<-1, -1>> ]

\* C21 as stated: after reset returns, every TerminalState field has its
\* default: columns = 80, rows = 24, bold, underline, reverse and boxMode
\* all false, autowrap false, the saved-attributes snapshot all false, and
\* the cursor cache Unknown.
C21_ResetDefaultsAsStated ==
    (call.op = "reset")
    => ( /\ ResetFields(self) = ResetDefaults
         /\ SavedAttributes(self) = <<FALSE, FALSE, FALSE, FALSE>> )

\* C21 as amended: after reset returns, every TerminalState field except the
\* saved-attributes snapshot has its default (columns = 80, rows = 24, bold,
\* underline, reverse and boxMode all false, autowrap false, the cursor
\* cache Unknown), nothing is raised, and the snapshot is the one reset
\* found.
C21_ResetDefaults ==
    [][ call'.op = "reset"
        => ( /\ ResetFields(self') = ResetDefaults
             /\ self'.raised = "none"
             /\ self'.lastMode = self.lastMode
             /\ self'.lastModes = self.lastModes ) ]_vars

\* reset ran in 132-column mode's wake with underline and reverse saved by
\* a save-cursor: the defaults are back and the snapshot still holds both.
C21_Witness ==
    /\ call.op = "reset"
    /\ ResetFields(self) = ResetDefaults
    /\ self.lastMode = <<FALSE, TRUE, TRUE, FALSE>>

---------------------------------------------------------------------------
(* Properties of the column switches, under SpecColumns *)

\* A column switch has returned or raised.
ColumnSwitchEnded ==
    call.op \in {"set132Columns", "set80Columns"} /\ pc.op = "idle"

\* A column switch returned normally although no answer to its status
\* request was transmitted.
ColumnSwitchPassedUnanswered ==
    ColumnSwitchEnded /\ self.raised = "none" /\ ~Answered

\* A column switch raised although the terminal answered its status request
\* before the wait ran out.
ColumnSwitchRaisedAnswered ==
    ColumnSwitchEnded /\ self.raised # "none" /\ Answered

\* C22: set132Columns (set80Columns) writes ESC[?3h (ESC[?3l), sets columns
\* to 132 (80), sets the cursor cache to Unknown, and then performs the
\* liveness check: it returns normally only if the status-okay frame was
\* received for the status request, and raises TerminalUnresponsive
\* otherwise.
C22_ColumnSwitchChecksLiveness ==
    /\ ColumnSwitchEnded
       => ( /\ call.op = "set132Columns"
               => ( /\ self.written = <<"ESC", "[", "?", "3", "h">>
                                        \o <<"ESC", "[", "5", "n">>
                    /\ self.columns = 132 )
            /\ call.op = "set80Columns"
               => ( /\ self.written = <<"ESC", "[", "?", "3", "l">>
                                        \o <<"ESC", "[", "5", "n">>
                    /\ self.columns = 80 )
            /\ self.cursor = <<-1, -1>>
            /\ self.raised \in {"none", "TerminalException"} )
    /\ ~ColumnSwitchPassedUnanswered
    /\ ~ColumnSwitchRaisedAnswered

---------------------------------------------------------------------------
(* Properties of recvInput's liveness check, under SpecPoll *)

\* ESC[5n
StatusRequest == <<"ESC", "[", "5", "n">>

\* recvInput is waiting for the answer to its soft (hard) probe.
InSoft == pc.op = "recvInput" /\ pc.phase = "soft"
InHard == pc.op = "recvInput" /\ pc.phase = "hard"

\* The frame the read attempt in progress yields when it ends in this step.
FrameRead == closeRead(self, pc.accum, pc.timeout, TRUE, pc.gotResponse).resp

\* This step ends a soft probe: the wait for its answer is over, or the
\* probe was sent and met by a buffered frame within the step.
SoftProbeEnds ==
    \/ InSoft /\ ~(pc'.op = "recvInput" /\ pc'.phase = "soft")
    \/ /\ ~InSoft /\ ~InHard
       /\ call'.op = "recvInput"
       /\ self.pollDue /\ ~self'.pollDue
       /\ Len(self'.written) >= 4
       /\ pc'.op = "idle" \/ pc'.phase = "hard"

\* The frame that soft probe was met by: the one just read, or the head of
\* the ResponseBuffer (a probe follows the input pump within a step only
\* when the pump read nothing).
SoftAnswer == IF InSoft THEN FrameRead ELSE Head(self.responses)

\* C23: recvInput raises TerminalUnresponsive only when the soft probe has
\* failed more than MAX_FAILURES (3) times with no successful soft probe in
\* between and the escalated hard check then fails too; a successful soft
\* probe resets the failure counter to zero, and a failed probe while the
\* counter is at or below the threshold is never fatal.  The counter counts
\* the soft probes failed since the last successful one.
C23_FatalOnlyAfterEscalation ==
    [][ /\ SoftProbeEnds
           => IF SoftAnswer = <<"[", "0", "n">>
              THEN /\ self'.pollFailures = 0
                   /\ self'.raised = "none"
                   /\ pc'.op = "idle"
              ELSE /\ self'.pollFailures = self.pollFailures + 1
                   /\ self'.pollFailures <= 3
                        => ( /\ self'.raised = "none"
                             /\ pc'.op = "idle"
                             /\ self'.written = StatusRequest )
        /\ ~SoftProbeEnds => self'.pollFailures = self.pollFailures
        /\ (InHard /\ pc'.op = "idle")
           => (self'.raised # "none" <=> FrameRead # <<"[", "0", "n">>)
        /\ (call'.op = "recvInput" /\ self'.raised # "none")
           => ( /\ self'.raised = "TerminalException"
                /\ self'.pollFailures > 3
                /\ self'.written = StatusRequest \o StatusRequest ) ]_vars

\* Four soft probes in a row went unanswered, the fourth escalated to the
\* hard check, and recvInput raised when that stayed unanswered too.
C23_Witness ==
    /\ call.op = "recvInput"
    /\ pc.op = "idle"
    /\ self.raised = "TerminalException"
    /\ self.pollFailures = 4
    /\ sent = <<>>

---------------------------------------------------------------------------
(* Properties of recvResponse's order, under SpecResponses *)

\* The response frames transmitted so far, without their ESC, in
\* transmission order.
ResponsesSent ==
    LET frames == SelectSeq(sent, LAMBDA t : ~IsKey(t))
    IN  [i \in 1..Len(frames) |-> Tail(frames[i])]

\* The positions of the ESC bytes of b, in order.
EscapesIn(b) == SelectSeq([i \in 1..Len(b) |-> i], LAMBDA i : b[i] = "ESC")

\* The frame that starts at the ESC at position i of b, without the ESC.
FrameAt(b, i) == SubSeq(From(b, i), 1, FrameEnd(From(b, i)))

\* The response frames in a run of bytes made of whole keys and frames.
FramesOf(b) ==
    SelectSeq([j \in 1..Len(EscapesIn(b)) |-> FrameAt(b, EscapesIn(b)[j])],
              LAMBDA f : f \notin Arrows)

\* The response frames not yet handed to a caller of recvResponse, oldest
\* first: the ResponseBuffer, then those among the bytes read, left over,
\* arrived and arriving.
Undelivered ==
    self.responses \o FramesOf(pc.accum \o self.leftover \o wire \o cur)

\* What a step has to change for the frames not yet returned to change.
Unread == <<self.responses, pc.accum \o self.leftover \o wire \o cur>>

IsSuffix(a, b) ==
    Len(a) <= Len(b) /\ a = SubSeq(b, Len(b) - Len(a) + 1, Len(b))

\* This step is a call of recvResponse.
RecvResponseCalled ==
    /\ pc.op = "idle"
    /\ call'.op = "recvResponse"
    /\ wire' = wire /\ cur' = cur

\* This step is recvResponse returning a frame.
RecvResponseYields ==
    /\ RecvResponseCalled \/ pc.op = "recvResponse"
    /\ pc'.op = "idle"
    /\ call'.ret # <<(<<>>)>>

\* C24: recvResponse returns the head of the ResponseBuffer (removing it)
\* whenever the buffer is non-empty, without reading the transport, and
\* pumps the demultiplexer only when the buffer is empty; consequently the
\* non-empty frames returned by successive recvResponse calls are the
\* response frames in the order they arrived on the wire, independent of
\* interleaved keystrokes and of recvInput calls that buffered some of
\* them: each frame returned is the oldest one not yet returned, and the
\* frames not yet returned stay the latest of those transmitted, in order.
C24_ResponsesInArrivalOrder ==
    /\ [][ /\ RecvResponseCalled
              => IF self.responses # <<>>
                 THEN /\ pc'.op = "idle"
                      /\ call'.ret = <<Head(self.responses)>>
                      /\ self'.responses = Tail(self.responses)
                      /\ self'.leftover = self.leftover
                      /\ self'.pending = self.pending
                 ELSE /\ pc'.op = "recvResponse"
                      /\ self'.responses = <<>>
           /\ RecvResponseYields
              => ( /\ Undelivered # <<>>
                   /\ call'.ret = <<Head(Undelivered)>>
                   /\ Undelivered' = Tail(Undelivered) )
           /\ (~RecvResponseYields /\ Unread' # Unread)
              => IsPrefix(Undelivered, Undelivered') ]_vars
    /\ [](IsSuffix(Undelivered, ResponsesSent))

\* A status answer, a key and a cursor report arrived; recvInput buffered
\* the first frame while delivering the key, and the second recvResponse
\* then returned the report.
C24_Witness ==
    /\ sent = <<StatusFrame, KeyA, ReportFrame>>
    /\ popped = <<KeyA>>
    /\ call.op = "recvResponse"
    /\ pc.op = "idle"
    /\ call.ret = <<Tail(ReportFrame)>>
    /\ Undelivered = <<>>

---------------------------------------------------------------------------
(* Properties of peekInput, under SpecPeek *)

\* This step is a call of peekInput.
PeekInputCalled ==
    /\ pc.op = "idle"
    /\ call'.op = "peekInput"
    /\ wire' = wire /\ cur' = cur /\ self'.pollDue = self.pollDue

\* This step is recvInput returning normally.
RecvInputReturns ==
    /\ call'.op = "recvInput"
    /\ pc.op = "recvInput" \/ (pc.op = "idle" /\ wire' = wire /\ cur' = cur
                                  /\ (self'.pollDue => self.pollDue))
    /\ pc'.op = "idle"
    /\ self'.raised = "none"

\* C25: peekInput changes no engine state and performs no transport I/O:
\* it returns the head of PendingInputQueue, or None when the queue is
\* empty; when it returns a token x, the next recvInput that returns
\* normally returns that same x and removes exactly that one token from the
\* queue.  (Until a recvInput returns, the queue only grows at its end, so
\* its head stays the token peekInput returned.)
C25_PeekThenRecvInput ==
    [][ /\ PeekInputCalled
           => ( /\ Fields(self') = Fields(self)
                /\ pc' = pc
                /\ sent' = sent
                /\ popped' = popped
                /\ self'.written = <<>>
                /\ self'.raised = "none"
                /\ call'.ret = IF self.pending # <<>>
                               THEN <<Head(self.pending)>> ELSE <<>> )
        /\ (RecvInputReturns /\ self.pending # <<>>)
           => ( /\ call'.ret = <<Head(self.pending)>>
                /\ IsPrefix(Tail(self.pending), self'.pending) )
        /\ ~RecvInputReturns => IsPrefix(self.pending, self'.pending) ]_vars

\* A key and an arrow key are queued and the liveness check is due:
\* peekInput returned the key and left both queued, so the recvInput that
\* follows probes the terminal before it returns that key.
C25_Witness ==
    /\ call.op = "peekInput"
    /\ pc.op = "idle"
    /\ call.ret = <<KeyB>>
    /\ self.pending = <<KeyB, UP>>
    /\ self.pollDue

---------------------------------------------------------------------------
(* Properties of sendText's glyph table, under SpecTable *)

\* A table of <<code point, byte>> pairs: whether it has c, and its byte.
Has(table, c) == \E p \in table : p[1] = c
ByteOf(table, c) == (CHOOSE p \in table : p[1] = c)[2]

\* Box-drawing characters and their bytes in the VT100 graphics set.
BoxDrawing ==
    { <<9472, "q">>, <<9474, "x">>, <<9484, "l">>, <<9488, "k">>,
      <<9492, "m">>, <<9496, "j">>, <<9532, "n">>, <<9500, "t">>,
      <<9508, "u">>, <<9524, "v">>, <<9516, "w">> }

\* The Latin-1 letters that carry a diacritic, with their base letters.
Accented ==
    {<<c, "A">> : c \in 192..197} \cup {<<199, "C">>}
        \cup {<<c, "E">> : c \in 200..203} \cup {<<c, "I">> : c \in 204..207}
        \cup {<<209, "N">>} \cup {<<c, "O">> : c \in 210..214}
        \cup {<<c, "U">> : c \in 217..220} \cup {<<221, "Y">>}
        \cup {<<c, "a">> : c \in 224..229} \cup {<<231, "c">>}
        \cup {<<c, "e">> : c \in 232..235} \cup {<<c, "i">> : c \in 236..239}
        \cup {<<241, "n">>} \cup {<<c, "o">> : c \in 242..246}
        \cup {<<c, "u">> : c \in 249..252} \cup {<<253, "y">>, <<255, "y">>}

\* The letter eth, capital and small, as fb sends it.
Eth == { <<208, "D">>, <<240, "o">> }

\* Degree, plus-minus, <=, >=, pi, not-equal, pound, middle dot and bullet
\* with their bytes in the VT100 graphics set.
Symbols ==
    { <<176, "f">>, <<177, "g">>, <<8804, "y">>, <<8805, "z">>, <<960, "{">>,
      <<8800, "|">>, <<163, "}">>, <<183, "~">>, <<8226, "~">> }

\* Variants of quotes, asterisk, semicolon, percent and tilde with their
\* ASCII equivalents.
Variants ==
    {<<c, "'">> : c \in {8216, 8217, 8218, 8219, 8242, 8245}}
        \cup {<<c, "\"">> : c \in {8220, 8221, 8222, 8223, 8243, 8246}}
        \cup { <<8270, "*">>, <<8277, "*">>, <<8271, ";">>, <<8274, "%">>,
               <<8275, "~">> }

\* The fill characters with the byte each is drawn with: three shades in
\* the alternate slot, and the solid block as a space in the default slot.
FillGlyphs == { <<9617, "n">>, <<9618, "a">>, <<9619, "a">>, <<9608, " ">> }

\* bytes without the attribute commands ESC [ d m in it.
Undressed(bytes) ==
    LET InCommand(i) ==
            \E j \in (i - 3)..i :
                /\ j >= 1 /\ j + 3 <= Len(bytes)
                /\ bytes[j] = "ESC" /\ bytes[j + 1] = "[" /\ bytes[j + 3] = "m"
        kept == SelectSeq([i \in 1..Len(bytes) |-> i], LAMBDA i : ~InCommand(i))
    IN  [k \in 1..Len(kept) |-> bytes[kept[k]]]

\* The shift byte this step's sendText has to write to draw in slot `inAlt`.
ShiftInto(inAlt) ==
    IF inAlt = self.boxMode THEN <<>> ELSE <<IF inAlt THEN "SO" ELSE "SI">>

\* This step's sendText wrote the one byte `glyph` in slot `inAlt`, after
\* the shift byte if the slot had to change, and nothing else.
SentAs(inAlt, glyph) ==
    /\ self'.written = ShiftInto(inAlt) \o <<glyph>>
    /\ self'.boxMode = inAlt

\* The same with attribute commands allowed around the glyph byte.
FillSentAs(inAlt, glyph) ==
    /\ IsPrefix(ShiftInto(inAlt), self'.written)
    /\ Undressed(From(self'.written, Len(ShiftInto(inAlt)))) = <<glyph>>
    /\ self'.boxMode = inAlt

\* This step is sendText of a single character.
SendsOne == call'.op = "sendText" /\ Len(call'.args[1]) = 1

\* C26 as stated: sendText encodes each input character to exactly one
\* glyph byte (plus at most one shift byte and, for fill characters,
\* attribute sequences): an ASCII character is sent unchanged in the default
\* slot, a box-drawing character of the table as its table byte in the
\* alternate slot, an accented Latin letter as its unaccented ASCII base
\* letter in the default slot, and every other non-ASCII character as the
\* fixed fallback glyph 0x60 in the alternate slot.
C26_GlyphTableAsStated ==
    [][ SendsOne
        => LET c == call'.args[1][1]
           IN  CASE c < 128 -> SentAs(FALSE, AsciiTable[c + 1])
                 [] Has(BoxDrawing, c) -> SentAs(TRUE, ByteOf(BoxDrawing, c))
                 [] Has(Accented, c) -> SentAs(FALSE, ByteOf(Accented, c))
                 [] Has(FillGlyphs, c) ->
                        FillSentAs(c # 9608, ByteOf(FillGlyphs, c))
                 [] OTHER -> SentAs(TRUE, "GRAVE") ]_vars

\* C26 as amended: the same, with three more classes ahead of the fallback:
\* the letter eth is sent as D (capital) or o (small) in the default slot, a
\* symbol of the table as its table byte in the alternate slot, and a quote,
\* asterisk, semicolon, percent or tilde variant of the table as its ASCII
\* equivalent in the default slot.
C26_GlyphTable ==
    [][ SendsOne
        => LET c == call'.args[1][1]
           IN  CASE c < 128 -> SentAs(FALSE, AsciiTable[c + 1])
                 [] Has(BoxDrawing, c) -> SentAs(TRUE, ByteOf(BoxDrawing, c))
                 [] Has(Accented, c) -> SentAs(FALSE, ByteOf(Accented, c))
                 [] Has(Eth, c) -> SentAs(FALSE, ByteOf(Eth, c))
                 [] Has(Symbols, c) -> SentAs(TRUE, ByteOf(Symbols, c))
                 [] Has(Variants, c) -> SentAs(FALSE, ByteOf(Variants, c))
                 [] Has(FillGlyphs, c) ->
                        FillSentAs(c # 9608, ByteOf(FillGlyphs, c))
                 [] OTHER -> SentAs(TRUE, "GRAVE") ]_vars

\* Pi was sent with the alternate slot already selected by the character
\* before it: its table byte went out alone.
C26_Witness ==
    /\ call.op = "sendText"
    /\ call.args = <<(<<960>>)>>
    /\ self.written = <<"{">>
    /\ self.boxMode

---------------------------------------------------------------------------
(* Properties of the wait budget, under SpecWait *)

\* The engine has read every byte that has arrived and holds none.
NothingToRead == pc.accum = <<>> /\ self.leftover = <<>> /\ wire = <<>>

\* C27: when the demultiplexer reclassifies a completed frame as an arrow
\* key and repeats the read, the repeated attempts share the wait budget of
\* the original call measured from its first attempt: if only arrow-key
\* frames keep arriving, recvResponse(wait) returns empty once wait has
\* elapsed since the call began, with all those arrow keys queued in
\* PendingInputQueue.  (The engine's next step after the budget has run out
\* and a read has found nothing is the empty return.)
C27_RepeatsShareWaitBudget ==
    [][ ( /\ pc.op = "recvResponse"
          /\ pc.wait = "spent"
          /\ NothingToRead
          /\ wire' = wire /\ cur' = cur )
        => ( /\ pc'.op = "idle"
             /\ call'.ret = <<(<<>>)>>
             /\ cur = <<>> => self'.pending = KeysSent ) ]_vars

\* recvResponse queued an arrow key, its budget counted from the first
\* attempt ran out, and a read that found nothing did not end the call.
C27_Overrun ==
    /\ pc.op = "recvResponse"
    /\ pc.wait = "overrun"
    /\ self.pending = <<UP>>
    /\ NothingToRead

---------------------------------------------------------------------------
(* Properties of a lone escape byte, under SpecEscape *)

\* recvResponse has read a bare escape byte and nothing else, and no byte
\* is on its way.
LoneEscape ==
    /\ pc.op = "recvResponse"
    /\ pc.accum = <<"ESC">>
    /\ self.leftover = <<>>
    /\ wire = <<>>
    /\ cur = <<>>

\* The read attempt ended as "nothing yet": recvResponse returned empty and
\* the escape byte is alone in LeftoverBuffer.
NothingYet ==
    /\ pc.op = "idle"
    /\ call.ret = <<(<<>>)>>
    /\ self.leftover = <<"ESC">>

---------------------------------------------------------------------------
(* Properties of frames that arrive in pieces, under SpecSplit *)

RECURSIVE Flat(_)
\* The bytes of a sequence of keys and frames.
Flat(tokens) == IF tokens = <<>> THEN <<>> ELSE Head(tokens) \o Flat(Tail(tokens))

\* The bytes not yet framed, oldest first: those read, left over, arrived
\* and arriving.
Stream == pc.accum \o self.leftover \o wire \o cur

\* b begins a frame and has no final byte yet.
PartialFrame(b) == b # <<>> /\ Head(b) = "ESC" /\ FrameEnd(Tail(b)) = 0

\* This step is a read that returns nothing while the engine holds the
\* beginning of a frame.
EmptyReadMidFrame ==
    /\ pc.op # "idle"
    /\ PartialFrame(pc.accum)
    /\ self.leftover = <<>> /\ wire = <<>>
    /\ wire' = wire /\ cur' = cur

\* C29: a response frame whose bytes reach the engine split across several
\* transport reads separated by empty (timed-out) reads, with no other byte
\* arriving in between, is returned by the demultiplexer as one intact
\* frame identical to the frame returned when the same bytes arrive in a
\* single burst: the partial prefix is re-queued in LeftoverBuffer in order
\* and no byte of it is lost, duplicated or routed to PendingInputQueue.
\* (The bytes not yet framed are always the latest of the bytes transmitted,
\* in order; an empty read in mid-frame moves the prefix to LeftoverBuffer
\* as it is and returns nothing; and every frame returned is the
\* transmitted frame at the head of those bytes, whole.)
C29_SplitFrameArrivesIntact ==
    /\ [](IsSuffix(Stream, Flat(sent)) /\ self.pending = <<>>)
    /\ [][ /\ EmptyReadMidFrame
              => ( /\ self'.leftover = pc.accum
                   /\ pc'.accum = <<>>
                   /\ pc'.op = pc.op
                   /\ self'.responses = self.responses )
           /\ (pc.op = "recvResponse" /\ pc'.op = "idle"
                  /\ call'.ret # <<(<<>>)>>)
              => LET frame == <<"ESC">> \o call'.ret[1]
                 IN  /\ \E i \in 1..Len(sent) : sent[i] = frame
                     /\ IsPrefix(frame, Stream)
                     /\ Stream' = From(Stream, Len(frame)) ]_vars

\* The first three bytes of a cursor report were read, an empty read put
\* them back into LeftoverBuffer, and the rest of the report is arriving.
C29_Witness ==
    /\ pc.op = "recvResponse"
    /\ self.leftover = <<"ESC", "[", "3">>
    /\ pc.accum = <<>>
    /\ wire = <<";">>
    /\ cur = <<"4", "R">>
    /\ sent = <<ReportFrame>>

---------------------------------------------------------------------------
(* Properties of the report fetchCursor takes, under SpecStale *)

\* fetchCursor has returned a position after asking the terminal for it.
FetchCursorQueried ==
    /\ call.op = "fetchCursor"
    /\ pc.op = "idle"
    /\ self.raised = "none"
    /\ self.written # <<>>

\* A report stating position p was transmitted after the call began; no
\* other report can answer a request the call sent.
ReportedSinceCall(p) ==
    \E i \in (call.mark + 1)..Len(sent) :
        ReportShaped(Tail(sent[i])) /\ Stated(sent[i]) = p

\* fetchCursor asked, and returned and cached the position of a report that
\* was transmitted before the call began.
StaleReportTaken ==
    /\ FetchCursorQueried
    /\ self.cursor = call.ret
    /\ ~ReportedSinceCall(call.ret)

\* C30: when fetchCursor queries the terminal (cache Unknown), the position
\* it returns and caches is taken from a cursor report that answers a
\* request sent during that same call: never from a surplus report
\* answering a request re-sent by an earlier fetchCursor call, nor from a
\* report already in the ResponseBuffer or LeftoverBuffer when the call
\* began, so the cache never holds a position older than the last
\* cursor-invalidating command.
C30_ReportAnswersThisCall ==
    FetchCursorQueried
    => (self.cursor = call.ret /\ ReportedSinceCall(call.ret))

\* A first fetchCursor took (3, 4) while a second report was on its way, the
\* screen was cleared, and the next fetchCursor took (30, 4) from that
\* second report, which was transmitted before the screen was cleared.
C30_SurplusTaken ==
    /\ StaleReportTaken
    /\ sent = <<ReportFrame, TallReportFrame>>
    /\ call.mark = 2
    /\ call.ret = <<30, 4>>
    /\ self.written = CursorRequest

---------------------------------------------------------------------------
(* Properties of the liveness-poll timer, under SpecPoll *)

\* This step ends a read attempt of recvInput: its input pump, or the wait
\* for the answer to a probe.
AttemptEnds ==
    /\ pc.op = "recvInput"
    /\ <<pc'.op, pc'.phase>> # <<pc.op, pc.phase>>

\* The attempt that ends in this step yields a frame, or has appended to
\* self.pending since it began.
AttemptYields ==
    LET r == closeRead(self, pc.accum, pc.timeout, TRUE, pc.gotResponse)
    IN  r.resp # <<>> \/ Len(r.s.pending) > pc.oldInputLen

\* This step is a call of recvInput.
RecvInputCalled ==
    /\ pc.op = "idle"
    /\ call'.op = "recvInput"
    /\ wire' = wire /\ cur' = cur
    /\ self'.pollDue => self.pollDue

\* recvInput sends its soft probe in this step.
SoftProbeSent ==
    /\ RecvInputCalled \/ (pc.op = "recvInput" /\ self.written = <<>>)
    /\ self'.written # <<>>

\* C31: recvInput sends a liveness probe only when more than CHECK_INTERVAL
\* (1 s) has elapsed since the later of the last successful activity and
\* the last probe: every read attempt that yields a classified frame or
\* appends to PendingInputQueue resets the liveness-poll timer, an attempt
\* that yields neither leaves the timer unchanged, and one recvInput call
\* sends at most one soft probe plus at most one escalated hard check.
C31_ProbeOnlyWhenDue ==
    /\ [][ /\ SoftProbeSent
              => ( /\ self.pollDue
                   /\ ~self'.pollDue
                   /\ AttemptEnds => ~AttemptYields )
           /\ (AttemptEnds /\ AttemptYields) => ~self'.pollDue
           /\ (AttemptEnds /\ ~AttemptYields /\ ~SoftProbeSent)
              => self'.pollDue = self.pollDue ]_vars
    /\ [](call.op = "recvInput"
            => /\ self.written \in {<<>>, StatusRequest,
                                     StatusRequest \o StatusRequest}
               /\ self.written = StatusRequest \o StatusRequest
                    => ( /\ self.pollFailures > MAX_FAILURES
                         /\ InHard \/ pc.op = "idle" ))

\* A recvInput call returned a key it had read when no check was due; more
\* than CHECK_INTERVAL then passed, and the next call, whose pump read
\* nothing, sent a soft probe and waits for the answer.
C31_Witness ==
    /\ InSoft
    /\ self.written = StatusRequest
    /\ ~self.pollDue
    /\ self.pollFailures = 0
    /\ sent = <<KeyA>>
    /\ Len(popped) = 1
    /\ wire = <<>> /\ cur = <<>>

====
